---- MODULE Spec2Model ----
(***************************************************************************)
(* Agentic tool-orchestration core of Simple-Ai-Agent:                     *)
(*   - ExecutionAgent.executePlan   (js/execution-agent.js, 455-702)       *)
(*   - the first revision of executePlan with positional url filling only  *)
(*     (unnamed/part_004, 23-111)                                          *)
(*   - ChatController.processToolCall, its loop protection and its callers *)
(*     (js/chat-controller.js, 244-293, 445-531, 601-633, 695-873) with    *)
(*     the tool handlers of js/tool-handlers.js                            *)
(* Each part has its own specification over the shared variables.          *)
(***************************************************************************)
EXTENDS Integers, Sequences, FiniteSets, TLC

VARIABLES
    \* ---- ExecutionAgent.executePlan ----
    plan,               \* the plan array (mutated in place by the executor)
    i,                  \* loop index of executePlan (0-based, as in the code)
    results,            \* results array returned by executePlan
    webSearchResults,   \* last web_search result array, or null
    collectedSnippets,  \* snippets pushed by read_url steps
    epc,                \* "idle" | "run" | "done": position of executePlan
    nextId,             \* identity of the next step object created
    \* ---- history of the run (observation only) ----
    calls,              \* tool handler invocations, in order
    processed,          \* identities of the steps the loop has taken up, in order
    skipped,            \* identities of read_url steps skipped as unresolvable
    thrown,             \* identity of the step whose handler threw, or 0
    invalid,            \* identity of the first step failing local validation, or 0
    lastEvent,          \* what the last loop iteration did
    \* ---- ChatController state (js/chat-controller.js, 10-30) ----
    lastEntry,          \* state.chatHistory[state.chatHistory.length - 1]
    toolWorkflowActive, \* state.toolWorkflowActive
    lastToolCall,       \* state.lastToolCall: last call signature, or null
    lastToolCallCount,  \* state.lastToolCallCount
    autoReadInProgress, \* state.autoReadInProgress
    readSnippets,       \* length of state.readSnippets
    searchResultsShown, \* the UI shows search results with a read-more callback
    stack,              \* per chain of awaited calls: its pending async frames
    messages,           \* user messages sent so far
    \* ---- history of the conversation (observation only) ----
    invocations,        \* number of processToolCall invocations so far
    lastInv,            \* the last processToolCall invocation and what it did
    runSig, runLen,     \* current run of identical invocations, all counted
    activeSig, activeLen, \* the same, counting invocations made while active
    lastCont,           \* what the last continuation decision saw and did
    \* ---- ChatController plan tracker (js/chat-controller.js, 1117-1166) ----
    currentPlan,        \* state.currentPlan: the status of each plan step
    planGen,            \* number of plans set so far (observation only)
    planSteps,          \* planSteps.length of the executePlanSteps in progress
    planIdx,            \* loop index idx of executePlanSteps (0-based)
    planPc,             \* position of executePlanSteps / executeSinglePlanStep
    \* ---- summarization and final-answer synthesis ----
    sumAgent,           \* who summarizes: the executor or the controller
    snippets,           \* the collected snippets (their lengths)
    userQuery,          \* the original question is a non-empty string
    sumPc,              \* position: the model request being awaited
    sumRound,           \* round of the summarization in progress
    batches,            \* batches still to be summarized in this round
    batchSummaries,     \* batch summaries of this round so far
    sumCalls,           \* summarization model requests made (observation only)
    synthCalls,         \* final-answer model requests made (observation only)
    shown,              \* kinds of chat messages shown to the user
    failed,             \* a model request has thrown (observation only)
    \* ---- PlanningAgent.createPlan ----
    plannerPc,          \* "idle" | "generating" | "returned" | "thrown"
    plannerQuery,       \* userQuery
    readStepsPerTerm,   \* this.readStepsPerTerm
    generation,         \* how the search terms came about (observation only)
    searchTerms,        \* the terms the plan is built from
    createdPlan,        \* the plan returned
    \* ---- toolHandlers.web_search (js/tool-handlers.js, 9-106) ----
    wsPc,               \* "idle" | "searching" | "asking" | "done"
    queriesTried,       \* queriesTried
    attempts,           \* attempts
    allResults,         \* allResults (the url of each entry)
    uniqueResults,      \* uniqueResults, once the loop is over
    searched,           \* queries given to ToolsService.webSearch (observation)
    declined,           \* the model repeated a query or gave none (observation)
    \* ---- splitIntoBatches called on its own ----
    splitSnippets,      \* the snippets given (their lengths)
    splitBudget,        \* maxLen
    splitBatches,       \* the batches returned
    \* ---- ToolsService.webSearch (js/tools-service.js, 83-137) ----
    proxyHealth,        \* proxyHealth: the score of each proxy
    sortedProxies,      \* sortedProxies of the call in progress
    proxyIdx,           \* position of the for loop in sortedProxies (0-based)
    relayPc,            \* "idle" | "trying"
    searchCalls,        \* webSearch calls made so far
    wins, losses,       \* attempts of each proxy that succeeded / failed (observation)
    rankAtSort,         \* 1 + 2 * wins - 2 * losses of each proxy when sorted (observation)
    \* ---- adaptive reading of one url (execution-agent.js 530-596,
    \*      chat-controller.js 812-843, auto-reader-agent.js 81-108) ----
    reader,             \* "none" | "executor" | "deepReadUrl" | "readAdaptively"
    pageLength,         \* length of the text ToolsService.readUrl returns for the url
    readPc,             \* "idle" | "loop" | "asking" | "done"
    readStart,          \* start: offset of the next chunk
    chunkCount,         \* chunkCount, or i of readAdaptively
    totalLength,        \* totalLength, or content.length of readAdaptively
    fetches,            \* calls of the read_url handler (observation)
    lengthAtFetch,      \* totalLength when the last chunk was requested (observation)
    \* ---- state.chatHistory as a sequence (js/chat-controller.js, 11, 171-293) ----
    chatHistory,        \* state.chatHistory: sequence of [role, content]
    turns,              \* sendMessage calls that passed validation (observation)
    clears,             \* clearChat calls (observation)
    \* ---- extractToolCall and the dispatch of its result
    \*      (js/chat-controller.js, 38-152, 1488-1525, 1943-1947, 2176-2194) ----
    replyText,          \* the text given to extractToolCall, by what it contains
    revision,           \* 1: extractToolCall of 38-152; 2: of 1488-1525
    sanitizerInScope,   \* whether the name sanitizeJsonString resolves (revision 1)
    extractPc,          \* "idle" | "extracted" | "dispatched"
    extraction,         \* what extractToolCall did: a call, null, or an exception
    handled,            \* the tool and arguments a handler was called with
    \* ---- JSON.stringify of a tool call, then extractToolCall
    \*      (js/chat-controller.js, 38-152, 1488-1525; unnamed/part_003, 38-75) ----
    callArguments,      \* the arguments of the call: the values of its members
    tripRevision,       \* 1 or 2: the extractToolCall applied
    tripSanitizer,      \* whether sanitizeJsonString resolves (revision 1)
    tripPc,             \* "idle" | "serialized" | "extracted"
    serialized,         \* JSON.stringify(call) as a sequence of tokens
    parsedBack,         \* what extractToolCall returned, as tokens; <<>> for null
    \* ---- Utils.encrypt and Utils.decrypt (js/utils.test.js, 61-92) ----
    plainText,          \* text: a sequence of UTF-16 code units
    cipherKey,          \* key: a non-empty sequence of UTF-16 code units
    cipherPc,           \* "idle" | "encrypted" | "decrypted"
    ciphertext,         \* encrypt(text, key): a sequence of decimal digits
    decrypted,          \* decrypt(ciphertext, key): a sequence of code units
    \* ---- one chain of model requests and tool calls, without its counters
    \*      (js/chat-controller.js, 244-293, 384-442, 695-753) ----
    turnPc,             \* "idle" | "request" | "handler" | "continue" | "ended"
    turnCall,           \* the tool call whose handler runs
    turnLastToolCall,   \* state.lastToolCall
    turnLastToolCallCount, \* state.lastToolCallCount
    turnLastEntry,      \* the last entry of state.chatHistory
    turnIssued,         \* the signatures of the tool calls issued in this turn
    \* ---- the recursion of summarizeAndSynthesize / summarizeSnippets alone
    \*      (js/execution-agent.js, 711-828) ----
    recPc,              \* "idle" | "single" | "batch" | "synth" | "failed" | "returned"
    recBatches,         \* the batches of this round not summarized yet
    recSummaries,       \* batchSummaries of this round
    \* ---- the read cache of deep reading (js/chat-controller.js, 772-787) ----
    readCache,          \* state.readCache: key -> cached text, or NotCached
    cachePc,            \* "idle" | "handler"
    cacheKey,           \* the key of the read in flight
    historyLast,        \* the last entry of state.chatHistory
    workflowActive,     \* state.toolWorkflowActive
    cacheLastToolCall,  \* state.lastToolCall
    cacheLastToolCallCount, \* state.lastToolCallCount
    returned,           \* what the last readUrlChunkWithCache returned, and for which key
    \* ---- the runs of autoReadAndSummarizeFromSuggestion
    \*      (js/chat-controller.js, 846-910) ----
    runPc,              \* per chain of calls: "idle" | "suggest" | "reading" | "summarizing"
    urlsLeft,           \* per chain: the urls of urlsToRead not read yet
    runLog              \* how the last run ended and whether a call was declined meanwhile

execVars == <<plan, i, results, webSearchResults, collectedSnippets, epc, nextId,
              calls, processed, skipped, thrown, invalid, lastEvent>>

invVars == <<invocations, lastInv, runSig, runLen, activeSig, activeLen>>

chatVars == <<lastEntry, toolWorkflowActive, lastToolCall, lastToolCallCount,
              autoReadInProgress, readSnippets, searchResultsShown, stack,
              messages, invVars, lastCont>>

planVars == <<currentPlan, planGen, planSteps, planIdx, planPc>>

sumVars == <<sumAgent, snippets, userQuery, sumPc, sumRound, batches,
             batchSummaries, sumCalls, synthCalls, shown, failed>>

\* ChatController state other than toolWorkflowActive
chatRest == <<lastEntry, lastToolCall, lastToolCallCount, autoReadInProgress,
              readSnippets, searchResultsShown, stack, messages, invVars,
              lastCont>>

plannerVars == <<plannerPc, plannerQuery, readStepsPerTerm, generation,
                 searchTerms, createdPlan>>

wsVars == <<wsPc, queriesTried, attempts, allResults, uniqueResults, searched,
            declined>>

splitVars == <<splitSnippets, splitBudget, splitBatches>>

relayVars == <<proxyHealth, sortedProxies, proxyIdx, relayPc, searchCalls,
               wins, losses, rankAtSort>>

readVars == <<reader, pageLength, readPc, readStart, chunkCount, totalLength,
              fetches, lengthAtFetch>>

histVars == <<chatHistory, turns, clears>>

extractVars == <<replyText, revision, sanitizerInScope, extractPc, extraction,
                 handled>>

tripVars == <<callArguments, tripRevision, tripSanitizer, tripPc, serialized,
              parsedBack>>

cipherVars == <<plainText, cipherKey, cipherPc, ciphertext, decrypted>>

turnVars == <<turnPc, turnCall, turnLastToolCall, turnLastToolCallCount,
              turnLastEntry, turnIssued>>

recVars == <<recPc, recBatches, recSummaries>>

cacheVars == <<readCache, cachePc, cacheKey, historyLast, workflowActive,
               cacheLastToolCall, cacheLastToolCallCount, returned>>

autoVars == <<runPc, urlsLeft, runLog>>

vars == <<execVars, chatVars, planVars, sumVars, plannerVars,
         wsVars,
         splitVars,
         relayVars,
         readVars,
         histVars,
         extractVars,
         tripVars,
         cipherVars,
         turnVars,
         recVars,
         cacheVars,
         autoVars>>

----------------------------------------------------------------------------
(* Bounds of the model *)
MaxPlanLen == 3     \* longest plan handed to executePlan
MaxResults == 2     \* largest result array a web_search returns
MaxSel == 1         \* most numbers the model lists in a selection reply

(* Program constants *)
TO_BE_FILLED_BY_EXECUTOR == -1   \* the sentinel url '<<TO_BE_FILLED_BY_EXECUTOR>>'
NoUrl == 0                      \* a step without a url argument (undefined)

NoQuery == "-"
BadQuery == ""                  \* an empty query: fails the handlers' validation
Queries == {"q1", "q2"}

\* Keys of the registry handed to the ExecutionAgent.
ToolRegistry == {"web_search", "read_url", "instant_answer"}

----------------------------------------------------------------------------
(* Generic sequence helpers *)

RECURSIVE SeqsUpTo(_, _)
SeqsUpTo(S, n) ==
    IF n = 0 THEN {<<>>}
    ELSE LET shorter == SeqsUpTo(S, n - 1)
         IN shorter \cup {Append(s, x) : s \in {t \in shorter : Len(t) = n - 1}, x \in S}

Range(s) == {s[k] : k \in 1..Len(s)}

RemoveAt(s, k) == SubSeq(s, 1, k - 1) \o SubSeq(s, k + 1, Len(s))

InsertAt(s, k, e) == SubSeq(s, 1, k - 1) \o <<e>> \o SubSeq(s, k, Len(s))

\* Array.prototype.indexOf on step objects (identity), 0-based, -1 if absent.
IndexOfStep(s, id) ==
    IF \E k \in 1..Len(s) : s[k].id = id
    THEN (CHOOSE k \in 1..Len(s) : s[k].id = id /\ \A m \in 1..(k - 1) : s[m].id # id) - 1
    ELSE -1

----------------------------------------------------------------------------
(* Plan steps *)

Step(id, n, tool, url, query) ==
    [id |-> id, step |-> n, tool |-> tool, url |-> url, query |-> query]

\* The step shapes a plan is built from: what createPlan emits (web_search,
\* read_url with the sentinel, summarize) and a step naming an unregistered tool.
StepTemplates ==
    {[tool |-> "web_search", url |-> NoUrl, query |-> q] : q \in Queries \cup {BadQuery}}
    \cup {[tool |-> "read_url", url |-> TO_BE_FILLED_BY_EXECUTOR, query |-> NoQuery],
          [tool |-> "summarize", url |-> NoUrl, query |-> NoQuery],
          [tool |-> "unknown_tool", url |-> NoUrl, query |-> NoQuery]}

\* Plans are numbered 1..n in order (PlanningAgent.createPlan, stepNum++).
MakePlan(ts) == [k \in 1..Len(ts) |-> Step(k, k, ts[k].tool, ts[k].url, ts[k].query)]

InitialPlans == {MakePlan(ts) : ts \in SeqsUpTo(StepTemplates, MaxPlanLen) \ {<<>>}}

NullResults == [isArray |-> FALSE, items |-> <<>>]
ArrayResults(items) == [isArray |-> TRUE, items |-> items]

\* The result array of the k-th handler invocation, n entries with distinct urls.
SearchResult(k, n) == ArrayResults([j \in 1..n |-> 10 * k + j])

----------------------------------------------------------------------------
(* executePlan: helpers translated from js/execution-agent.js *)

\* plan.filter(s => s.tool === 'read_url')
ReadUrlSteps(p) == SelectSeq(p, LAMBDA s : s.tool = "read_url")

\* readUrlSteps.indexOf(step)
ThisReadUrlIndex(p, step) == IndexOfStep(ReadUrlSteps(p), step.id)

\* webSearchResults[thisReadUrlIndex] is truthy
HasEntry(wsr, n) == wsr.isArray /\ n >= 0 /\ n < Len(wsr.items)

\* SkipUnresolved without the branch for a missing result array.
SkipUnresolvedArrayOnly(step, wsr, p) ==
    /\ step.tool = "read_url"
    /\ step.url = TO_BE_FILLED_BY_EXECUTOR
    /\ wsr.isArray
    /\ ~HasEntry(wsr, ThisReadUrlIndex(p, step))

\* The two skip branches of lines 485-512: the step still carries the sentinel
\* and either no result array exists or it has no entry at the step's position.
SkipUnresolved(step, wsr, p) ==
    /\ step.tool = "read_url"
    /\ step.url = TO_BE_FILLED_BY_EXECUTOR
    /\ ~HasEntry(wsr, ThisReadUrlIndex(p, step))

\* ResolvedUrl taking the first entry whatever the step's position.
ResolvedUrlFirstEntry(step, wsr, p) ==
    IF step.url = TO_BE_FILLED_BY_EXECUTOR /\ HasEntry(wsr, ThisReadUrlIndex(p, step))
    THEN wsr.items[1]
    ELSE step.url

\* The url the read_url handler is called with (line 490 fills the sentinel).
ResolvedUrl(step, wsr, p) ==
    IF step.url = TO_BE_FILLED_BY_EXECUTOR /\ HasEntry(wsr, ThisReadUrlIndex(p, step))
    THEN wsr.items[ThisReadUrlIndex(p, step) + 1]
    ELSE step.url

\* line 643: the numbers found in the reply, made 0-based and filtered to range.
SelectedIndices(nums, n) ==
    SelectSeq([k \in 1..Len(nums) |-> nums[k] - 1], LAMBDA x : x >= 0 /\ x < n)

\* line 648: the fallback when the selection request throws.
FallbackIndices(n) == SelectSeq(<<0, 1, 2>>, LAMBDA x : x < n)

\* lines 650-662: walk the whole plan; every read_url step takes the next selected
\* result or is spliced out of the plan (j and readUrlStepIdx are 0-based).
RECURSIVE RewriteReadUrls(_, _, _, _, _)
RewriteReadUrls(p, j, readUrlStepIdx, sel, wsr) ==
    IF j >= Len(p) THEN p
    ELSE IF p[j + 1].tool = "read_url"
         THEN IF readUrlStepIdx < Len(sel) /\ HasEntry(wsr, sel[readUrlStepIdx + 1])
              THEN RewriteReadUrls(
                       [p EXCEPT ![j + 1].url = wsr.items[sel[readUrlStepIdx + 1] + 1]],
                       j + 1, readUrlStepIdx + 1, sel, wsr)
              ELSE RewriteReadUrls(RemoveAt(p, j + 1), j, readUrlStepIdx + 1, sel, wsr)
         ELSE RewriteReadUrls(p, j + 1, readUrlStepIdx, sel, wsr)

\* lines 605-606: if (step.tool === 'web_search' && Array.isArray(result))
\*                    webSearchResults = result
StoreResults(old, res) == IF res.isArray THEN res ELSE old

\* line 667: plan.some(s => s.tool === 'instant_answer')
AlreadyHasInstant(p) == \E k \in 1..Len(p) : p[k].tool = "instant_answer"

\* lines 669-674: the synthesized fallback step.
InstantStep(step, id) == Step(id, step.step + 1, "instant_answer", NoUrl, step.query)

\* lines 666-679: plan.splice(i + 1, 0, instantStep) on an empty result array.
InsertFallback(p, idx, step, res, id) ==
    IF res.isArray /\ Len(res.items) = 0 /\ ~AlreadyHasInstant(p)
    THEN InsertAt(p, idx + 2, InstantStep(step, id))
    ELSE p

\* AfterCatch with the loop going on instead of breaking.
AfterCatchContinue == "run"

\* line 689: `break` leaves the loop after a handler exception.
AfterCatch == "done"

\* What the model's selection reply can be: the request throws, or the reply
\* holds a list of numbers (possibly out of range), or it holds no number at
\* all (nums is empty: no match, or a match that parses to NaN only).
SelectionReplies(n) ==
    {[throws |-> TRUE, nums |-> <<>>]}
    \cup {[throws |-> FALSE, nums |-> ns] : ns \in SeqsUpTo(1..(n + 1), MaxSel)}

\* What a web_search handler invocation returns for a query: null for a query
\* that fails validation, otherwise a result array.
SearchReturns(query, k) ==
    IF query = BadQuery THEN {NullResults}
    ELSE {SearchResult(k, n) : n \in 0..MaxResults}

Call(step, url, ret) == [id |-> step.id, tool |-> step.tool, url |-> url, ret |-> ret]
Result(step, kind) == [id |-> step.id, step |-> step.step, kind |-> kind]
Event(kind, query, had) == [kind |-> kind, query |-> query, hadForQuery |-> had]

HasInstantFor(p, q) ==
    \E k \in 1..Len(p) : p[k].tool = "instant_answer" /\ p[k].query = q

----------------------------------------------------------------------------
(* ChatController: the tool-call loop around processToolCall *)

MaxInvocations == 4     \* processToolCall invocations in one behaviour
MaxMessages == 1        \* user messages sent in one behaviour

MaxRepeatCount == 5     \* lastToolCallCount is followed up to this value
MAX_TOOL_CALL_REPEAT == 3

Main == "sendMessage"               \* the chain of calls awaited by sendMessage
Click == "readMore"                 \* the chain a read-more click starts
Tasks == {Main, Click}

\* A tool call as extractToolCall or a caller builds it
ToolCall(tool, args, skip) == [tool |-> tool, args |-> args, skipContinue |-> skip]
NoCall == ToolCall("-", "-", FALSE)

\* Calls a model reply may contain
ModelCalls == { ToolCall("web_search", "q1", FALSE),
                ToolCall("read_url", "u1:0:1122", FALSE),
                ToolCall("read_url", "not-a-url", FALSE),
                ToolCall("shell", "ls", FALSE) }
\* The call of the read-more callback of a search result
ReadMoreCall == ToolCall("read_url", "u1:0:1122", FALSE)
\* The call deep reading makes for one chunk
ChunkCall == ToolCall("read_url", "u1:0:2000", TRUE)

\* JSON.stringify({ tool, args }): skipContinue is not part of the signature
Signature(call) == <<call.tool, call.args>>
NullSignature == <<>>

\* What JSON.parse makes of a history entry's content: whether it parses, and
\* whether the parsed value has a truthy tool and a truthy arguments member
Content(json, tool, arguments) == [json |-> json, tool |-> tool, arguments |-> arguments]
PlainText == Content(FALSE, FALSE, FALSE)
JsonToolOnly == Content(TRUE, TRUE, FALSE)
SerializedToolCall == Content(TRUE, TRUE, TRUE)
UserContents == {PlainText, JsonToolOnly, SerializedToolCall}
Entry(role, content) == [role |-> role, content |-> content]
\* lastEntry of an empty history (undefined)
NoEntry == Entry("-", PlainText)

\* isToolCall of the continuation
IsToolCallToolKeyOnly(e) ==
    /\ e # NoEntry
    /\ e.content.json
    /\ e.content.tool
IsToolCall(e) ==
    /\ e # NoEntry
    /\ e.content.json
    /\ e.content.tool
    /\ e.content.arguments

\* isToolCallLoop: the new repeat count, and the threshold test
NextCountNoReset(last, count, sig) == count + 1
NextCount(last, count, sig) == IF last = sig THEN count + 1 ELSE 1
LoopDetectedAtThreshold(count) == count >= MAX_TOOL_CALL_REPEAT
LoopDetected(count) == count > MAX_TOOL_CALL_REPEAT

\* Frames of a chain of awaited calls, innermost last.
\*   kind "send": sendMessage; kind "call": one processToolCall invocation
\*   pc "request" : awaiting a model reply
\*      "nested"  : awaiting the processToolCall the reply asked for
\*      "plan"    : sendMessage is between two steps of a detected plan
\*      "planned" : awaiting the processToolCall of a plan step
\*      "handler" : the tool handler is awaiting its fetch
\*      "reading" : the web_search handler is in its auto-read loop
\*      "cont"    : the handler has resolved, the continuation is next
Frame(kind, call, pc) == [kind |-> kind, call |-> call, pc |-> pc]
Top(s) == s[Len(s)]
Pop(s) == SubSeq(s, 1, Len(s) - 1)
SetTop(s, pc) == [s EXCEPT ![Len(s)].pc = pc]

\* The caller resumes when the awaited processToolCall resolves
RECURSIVE Resume(_)
Resume(s) ==
    IF s = <<>> THEN s
    ELSE IF Top(s).pc = "nested" THEN Resume(Pop(s))
    ELSE IF Top(s).pc = "planned" THEN SetTop(s, "plan")
    ELSE s

HandlerInFlight(t) == \E k \in 1 .. Len(stack[t]) : stack[t][k].pc \in {"handler", "reading"}

\* A continuation decision as observed: the last history entry it read,
\* whether it warned, how many model requests it issued
Continuation(made, seen, warned, requests) ==
    [made |-> made, seen |-> seen, warned |-> warned, requests |-> requests]
NoContinuation == Continuation(FALSE, NoEntry, FALSE, 0)

\* What one processToolCall invocation did, as observed
Invocation(sig, active, outcome, count) ==
    [sig |-> sig, active |-> active, outcome |-> outcome, count |-> count]
NoInvocation == Invocation(NullSignature, FALSE, "-", 0)

\* ChatController after init
ChatStart ==
    /\ lastEntry = Entry("system", PlainText)
    /\ toolWorkflowActive = TRUE
    /\ lastToolCall = NullSignature
    /\ lastToolCallCount = 0
    /\ autoReadInProgress = FALSE
    /\ readSnippets = 0
    /\ searchResultsShown = FALSE
    /\ stack = [t \in Tasks |-> <<>>]
    /\ messages = 0
    /\ invocations = 0
    /\ lastInv = NoInvocation
    /\ runSig = NullSignature
    /\ runLen = 0
    /\ activeSig = NullSignature
    /\ activeLen = 0
    /\ lastCont = NoContinuation
    /\ currentPlan = <<>>
    /\ planGen = 0
    /\ planSteps = 0
    /\ planIdx = 0
    /\ planPc = "idle"
    /\ sumAgent = "-"
    /\ snippets = <<>>
    /\ userQuery = FALSE
    /\ sumPc = "idle"
    /\ sumRound = 0
    /\ batches = <<>>
    /\ batchSummaries = <<>>
    /\ sumCalls = 0
    /\ synthCalls = 0
    /\ shown = {}
    /\ failed = FALSE
    /\ plannerPc = "idle"
    /\ plannerQuery = NoQuery
    /\ readStepsPerTerm = 0
    /\ generation = "-"
    /\ searchTerms = <<>>
    /\ createdPlan = <<>>
    /\ wsPc = "idle"
    /\ queriesTried = <<>>
    /\ attempts = 0
    /\ allResults = <<>>
    /\ uniqueResults = <<>>
    /\ searched = <<>>
    /\ declined = FALSE
    /\ splitSnippets = <<>>
    /\ splitBudget = 0
    /\ splitBatches = <<>>
    /\ proxyHealth = [p \in {"p1", "p2", "p3"} |-> 1]
    /\ sortedProxies = <<>>
    /\ proxyIdx = 0
    /\ relayPc = "idle"
    /\ searchCalls = 0
    /\ wins = [p \in {"p1", "p2", "p3"} |-> 0]
    /\ losses = [p \in {"p1", "p2", "p3"} |-> 0]
    /\ rankAtSort = [p \in {"p1", "p2", "p3"} |-> 1]
    /\ reader = "none"
    /\ pageLength = 0
    /\ readPc = "idle"
    /\ readStart = 0
    /\ chunkCount = 0
    /\ totalLength = 0
    /\ fetches = 0
    /\ lengthAtFetch = 0
    /\ chatHistory = <<[role |-> "system", content |-> "instructions"]>>
    /\ turns = 0
    /\ clears = 0
    /\ replyText = [form |-> "plain"]
    /\ revision = 1
    /\ sanitizerInScope = FALSE
    /\ extractPc = "idle"
    /\ extraction = [kind |-> "none"]
    /\ handled = [tool |-> "absent", arguments |-> "absent"]
    /\ callArguments = <<>>
    /\ tripRevision = 1
    /\ tripSanitizer = FALSE
    /\ tripPc = "idle"
    /\ serialized = <<>>
    /\ parsedBack = <<>>
    /\ plainText = <<>>
    /\ cipherKey = <<>>
    /\ cipherPc = "idle"
    /\ ciphertext = <<>>
    /\ decrypted = <<>>
    /\ turnPc = "idle"
    /\ turnCall = NoCall
    /\ turnLastToolCall = NullSignature
    /\ turnLastToolCallCount = 0
    /\ turnLastEntry = Entry("system", PlainText)
    /\ turnIssued = {}
    /\ recPc = "idle"
    /\ recBatches = <<>>
    /\ recSummaries = <<>>
    /\ readCache = [k \in {} |-> 0]
    /\ cachePc = "idle"
    /\ cacheKey = <<>>
    /\ historyLast = [kind |-> "other", url |-> "-", start |-> 0]
    /\ workflowActive = TRUE
    /\ cacheLastToolCall = <<>>
    /\ cacheLastToolCallCount = 0
    /\ returned = [key |-> <<>>, text |-> [url |-> "-", start |-> 0]]
    /\ runPc = [c \in {"chain1", "chain2", "chain3"} |-> "idle"]
    /\ urlsLeft = [c \in {"chain1", "chain2", "chain3"} |-> 0]
    /\ runLog = [ended |-> "-", declined |-> FALSE]

----------------------------------------------------------------------------
(* executePlan: one action per way an iteration of the while loop ends *)

CurStep == plan[i + 1]
InLoop == epc = "run" /\ i < Len(plan)

\* lines 473-483
StepSummarize ==
    /\ InLoop
    /\ CurStep.tool = "summarize"
    /\ processed' = Append(processed, CurStep.id)
    /\ i' = i + 1
    /\ lastEvent' = Event("summarize", NoQuery, FALSE)
    /\ UNCHANGED <<plan, results, webSearchResults, collectedSnippets, epc, nextId,
                   calls, skipped, thrown, invalid>>
    /\ UNCHANGED <<chatVars, planVars, sumVars, plannerVars, wsVars, splitVars, relayVars, readVars, histVars, extractVars, tripVars, cipherVars, turnVars, recVars, cacheVars, autoVars>>

\* lines 485-512, the two skipping branches
StepSkip ==
    /\ InLoop
    /\ SkipUnresolved(CurStep, webSearchResults, plan)
    /\ processed' = Append(processed, CurStep.id)
    /\ skipped' = skipped \cup {CurStep.id}
    /\ i' = i + 1
    /\ lastEvent' = Event("skip", NoQuery, FALSE)
    /\ UNCHANGED <<plan, results, webSearchResults, collectedSnippets, epc, nextId,
                   calls, thrown, invalid>>
    /\ UNCHANGED <<chatVars, planVars, sumVars, plannerVars, wsVars, splitVars, relayVars, readVars, histVars, extractVars, tripVars, cipherVars, turnVars, recVars, cacheVars, autoVars>>

Dispatchable ==
    /\ InLoop
    /\ CurStep.tool # "summarize"
    /\ ~SkipUnresolved(CurStep, webSearchResults, plan)

\* lines 516-527
StepToolNotFound ==
    /\ Dispatchable
    /\ CurStep.tool \notin ToolRegistry
    /\ processed' = Append(processed, CurStep.id)
    /\ results' = Append(results, Result(CurStep, "error"))
    /\ invalid' = IF invalid = 0 THEN CurStep.id ELSE invalid
    /\ i' = i + 1
    /\ lastEvent' = Event("not_found", NoQuery, FALSE)
    /\ UNCHANGED <<plan, webSearchResults, collectedSnippets, epc, nextId,
                   calls, skipped, thrown>>
    /\ UNCHANGED <<chatVars, planVars, sumVars, plannerVars, wsVars, splitVars, relayVars, readVars, histVars, extractVars, tripVars, cipherVars, turnVars, recVars, cacheVars, autoVars>>

\* lines 528-529 and 681-690: the handler throws
StepThrow ==
    /\ Dispatchable
    /\ CurStep.tool \in ToolRegistry
    /\ CurStep.query # BadQuery
    /\ processed' = Append(processed, CurStep.id)
    /\ calls' = Append(calls, Call(CurStep,
                                   ResolvedUrl(CurStep, webSearchResults, plan),
                                   NullResults))
    /\ plan' = [plan EXCEPT ![i + 1].url = ResolvedUrl(CurStep, webSearchResults, plan)]
    /\ results' = Append(results, Result(CurStep, "error"))
    /\ thrown' = CurStep.id
    /\ epc' = AfterCatch
    /\ lastEvent' = Event("throw", NoQuery, FALSE)
    /\ UNCHANGED <<i, webSearchResults, collectedSnippets, nextId, skipped, invalid>>
    /\ UNCHANGED <<chatVars, planVars, sumVars, plannerVars, wsVars, splitVars, relayVars, readVars, histVars, extractVars, tripVars, cipherVars, turnVars, recVars, cacheVars, autoVars>>

\* lines 530-596: adaptive reading of a resolved read_url step
StepReadUrl ==
    /\ Dispatchable
    /\ CurStep.tool = "read_url"
    /\ LET url == ResolvedUrl(CurStep, webSearchResults, plan)
       IN /\ plan' = [plan EXCEPT ![i + 1].url = url]
          /\ calls' = Append(calls, Call(CurStep, url, NullResults))
          /\ collectedSnippets' = Append(collectedSnippets, url)
    /\ processed' = Append(processed, CurStep.id)
    /\ results' = Append(results, Result(CurStep, "result"))
    /\ i' = i + 1
    /\ lastEvent' = Event("read", NoQuery, FALSE)
    /\ UNCHANGED <<webSearchResults, epc, nextId, skipped, thrown, invalid>>
    /\ UNCHANGED <<chatVars, planVars, sumVars, plannerVars, wsVars, splitVars, relayVars, readVars, histVars, extractVars, tripVars, cipherVars, turnVars, recVars, cacheVars, autoVars>>

\* lines 597-680 for a web_search step: store the result array, let the model
\* select results and rewrite the read_url steps, insert the fallback step
StepWebSearch ==
    /\ Dispatchable
    /\ CurStep.tool = "web_search"
    /\ \E res \in SearchReturns(CurStep.query, Len(calls) + 1) :
       \E reply \in SelectionReplies(Len(res.items)) :
          LET n == Len(res.items)
              sel == IF reply.throws THEN FallbackIndices(n)
                     ELSE SelectedIndices(reply.nums, n)
              rewritten == IF res.isArray /\ n > 0
                           THEN RewriteReadUrls(plan, 0, 0, sel, res)
                           ELSE plan
          IN /\ (n = 0 => reply.throws)   \* no selection request on an empty array
             /\ calls' = Append(calls, Call(CurStep, NoUrl, res))
             /\ webSearchResults' = StoreResults(webSearchResults, res)
             /\ plan' = InsertFallback(rewritten, i, CurStep, res, nextId)
             /\ nextId' = IF plan' = rewritten THEN nextId ELSE nextId + 1
             /\ invalid' = IF invalid = 0 /\ ~res.isArray THEN CurStep.id ELSE invalid
             /\ lastEvent' = IF res.isArray /\ n = 0
                             THEN Event("ws_empty", CurStep.query,
                                        HasInstantFor(plan, CurStep.query))
                             ELSE IF res.isArray /\ ~reply.throws /\ reply.nums = <<>>
                             THEN Event("ws_unparsed", CurStep.query, FALSE)
                             ELSE Event("ws", CurStep.query, FALSE)
    /\ processed' = Append(processed, CurStep.id)
    /\ results' = Append(results, Result(CurStep, "result"))
    /\ i' = i + 1
    /\ UNCHANGED <<collectedSnippets, epc, skipped, thrown>>
    /\ UNCHANGED <<chatVars, planVars, sumVars, plannerVars, wsVars, splitVars, relayVars, readVars, histVars, extractVars, tripVars, cipherVars, turnVars, recVars, cacheVars, autoVars>>

\* lines 597-604 for any other registered tool (instant_answer)
StepOtherTool ==
    /\ Dispatchable
    /\ CurStep.tool \in ToolRegistry \ {"web_search", "read_url"}
    /\ processed' = Append(processed, CurStep.id)
    /\ calls' = Append(calls, Call(CurStep, NoUrl, NullResults))
    /\ results' = Append(results, Result(CurStep, "result"))
    /\ i' = i + 1
    /\ lastEvent' = Event("other", CurStep.query, FALSE)
    /\ UNCHANGED <<plan, webSearchResults, collectedSnippets, epc, nextId,
                   skipped, thrown, invalid>>
    /\ UNCHANGED <<chatVars, planVars, sumVars, plannerVars, wsVars, splitVars, relayVars, readVars, histVars, extractVars, tripVars, cipherVars, turnVars, recVars, cacheVars, autoVars>>

\* line 464: the loop condition fails; line 701: return results
ExecReturn ==
    /\ epc = "run"
    /\ i >= Len(plan)
    /\ epc' = "done"
    /\ UNCHANGED <<plan, i, results, webSearchResults, collectedSnippets, nextId,
                   calls, processed, skipped, thrown, invalid, lastEvent>>
    /\ UNCHANGED <<chatVars, planVars, sumVars, plannerVars, wsVars, splitVars, relayVars, readVars, histVars, extractVars, tripVars, cipherVars, turnVars, recVars, cacheVars, autoVars>>

InitExec ==
    /\ plan \in InitialPlans
    /\ i = 0
    /\ results = <<>>
    /\ webSearchResults = NullResults
    /\ collectedSnippets = <<>>
    /\ epc = "run"
    /\ nextId = Len(plan) + 1
    /\ calls = <<>>
    /\ processed = <<>>
    /\ skipped = {}
    /\ thrown = 0
    /\ invalid = 0
    /\ lastEvent = Event("start", NoQuery, FALSE)
    /\ ChatStart

NextExec ==
    \/ StepSummarize
    \/ StepSkip
    \/ StepToolNotFound
    \/ StepThrow
    \/ StepReadUrl
    \/ StepWebSearch
    \/ StepOtherTool
    \/ ExecReturn

SpecExec == InitExec /\ [][NextExec]_vars

----------------------------------------------------------------------------
(* The first revision of executePlan (unnamed/part_004, 23-111): urls are    *)
(* filled by position only; no result selection, no summarize interception. *)

\* part_004 lines 31-54
FillSkip ==
    /\ InLoop
    /\ SkipUnresolved(CurStep, webSearchResults, plan)
    /\ processed' = Append(processed, CurStep.id)
    /\ skipped' = skipped \cup {CurStep.id}
    /\ i' = i + 1
    /\ lastEvent' = Event("skip", NoQuery, FALSE)
    /\ UNCHANGED <<plan, results, webSearchResults, collectedSnippets, epc, nextId,
                   calls, thrown, invalid>>
    /\ UNCHANGED <<chatVars, planVars, sumVars, plannerVars, wsVars, splitVars, relayVars, readVars, histVars, extractVars, tripVars, cipherVars, turnVars, recVars, cacheVars, autoVars>>

FillDispatchable == InLoop /\ ~SkipUnresolved(CurStep, webSearchResults, plan)

\* part_004 lines 60-70 (summarize has no handler in this revision)
FillToolNotFound ==
    /\ FillDispatchable
    /\ CurStep.tool \notin ToolRegistry
    /\ processed' = Append(processed, CurStep.id)
    /\ results' = Append(results, Result(CurStep, "error"))
    /\ invalid' = IF invalid = 0 THEN CurStep.id ELSE invalid
    /\ i' = i + 1
    /\ lastEvent' = Event("not_found", NoQuery, FALSE)
    /\ UNCHANGED <<plan, webSearchResults, collectedSnippets, epc, nextId,
                   calls, skipped, thrown>>
    /\ UNCHANGED <<chatVars, planVars, sumVars, plannerVars, wsVars, splitVars, relayVars, readVars, histVars, extractVars, tripVars, cipherVars, turnVars, recVars, cacheVars, autoVars>>

\* part_004 lines 72-74 and 97-104
FillThrow ==
    /\ FillDispatchable
    /\ CurStep.tool \in ToolRegistry
    /\ CurStep.query # BadQuery
    /\ processed' = Append(processed, CurStep.id)
    /\ calls' = Append(calls, Call(CurStep,
                                   ResolvedUrl(CurStep, webSearchResults, plan),
                                   NullResults))
    /\ plan' = [plan EXCEPT ![i + 1].url = ResolvedUrl(CurStep, webSearchResults, plan)]
    /\ results' = Append(results, Result(CurStep, "error"))
    /\ thrown' = CurStep.id
    /\ epc' = AfterCatch
    /\ lastEvent' = Event("throw", NoQuery, FALSE)
    /\ UNCHANGED <<i, webSearchResults, collectedSnippets, nextId, skipped, invalid>>
    /\ UNCHANGED <<chatVars, planVars, sumVars, plannerVars, wsVars, splitVars, relayVars, readVars, histVars, extractVars, tripVars, cipherVars, turnVars, recVars, cacheVars, autoVars>>

\* part_004 lines 72-96: the handler returns
FillRunTool ==
    /\ FillDispatchable
    /\ CurStep.tool \in ToolRegistry
    /\ \E res \in (IF CurStep.tool = "web_search"
                   THEN SearchReturns(CurStep.query, Len(calls) + 1)
                   ELSE {NullResults}) :
          LET url == ResolvedUrl(CurStep, webSearchResults, plan)
              filled == [plan EXCEPT ![i + 1].url = url]
          IN /\ calls' = Append(calls, Call(CurStep, url, res))
             /\ webSearchResults' = IF CurStep.tool = "web_search"
                                    THEN StoreResults(webSearchResults, res)
                                    ELSE webSearchResults
             /\ plan' = IF CurStep.tool = "web_search"
                        THEN InsertFallback(filled, i, CurStep, res, nextId)
                        ELSE filled
             /\ nextId' = IF plan' = filled THEN nextId ELSE nextId + 1
             /\ invalid' = IF invalid = 0 /\ CurStep.query = BadQuery
                           THEN CurStep.id ELSE invalid
             /\ lastEvent' = IF CurStep.tool = "web_search" /\ res.isArray
                                /\ Len(res.items) = 0
                             THEN Event("ws_empty", CurStep.query,
                                        HasInstantFor(plan, CurStep.query))
                             ELSE Event("run", CurStep.query, FALSE)
    /\ processed' = Append(processed, CurStep.id)
    /\ results' = Append(results, Result(CurStep, "result"))
    /\ i' = i + 1
    /\ UNCHANGED <<collectedSnippets, epc, skipped, thrown>>
    /\ UNCHANGED <<chatVars, planVars, sumVars, plannerVars, wsVars, splitVars, relayVars, readVars, histVars, extractVars, tripVars, cipherVars, turnVars, recVars, cacheVars, autoVars>>

\* part_004 lines 27 and 108
FillReturn ==
    /\ epc = "run"
    /\ i >= Len(plan)
    /\ epc' = "done"
    /\ UNCHANGED <<plan, i, results, webSearchResults, collectedSnippets, nextId,
                   calls, processed, skipped, thrown, invalid, lastEvent>>
    /\ UNCHANGED <<chatVars, planVars, sumVars, plannerVars, wsVars, splitVars, relayVars, readVars, histVars, extractVars, tripVars, cipherVars, turnVars, recVars, cacheVars, autoVars>>

NextFill ==
    \/ FillSkip
    \/ FillToolNotFound
    \/ FillThrow
    \/ FillRunTool
    \/ FillReturn

SpecFill == InitExec /\ [][NextFill]_vars

----------------------------------------------------------------------------
(* ChatController: one action per stretch of code between two awaits *)

\* An executePlan that is not running
ExecIdle ==
    /\ plan = <<>>
    /\ i = 0
    /\ results = <<>>
    /\ webSearchResults = NullResults
    /\ collectedSnippets = <<>>
    /\ epc = "idle"
    /\ nextId = 1
    /\ calls = <<>>
    /\ processed = <<>>
    /\ skipped = {}
    /\ thrown = 0
    /\ invalid = 0
    /\ lastEvent = Event("start", NoQuery, FALSE)

\* the gate is passed only after the loop protection has counted the call
ProcessToolCallGateAfterCount(t, s, call) ==
    LET sig == Signature(call)
        count == NextCount(lastToolCall, lastToolCallCount, sig)
        outcome == IF LoopDetected(count) THEN "loop_detected"
                   ELSE IF ~toolWorkflowActive THEN "inactive"
                   ELSE "handler"
    IN /\ invocations < MaxInvocations
       /\ invocations' = invocations + 1
       /\ lastToolCall' = sig
       /\ lastToolCallCount' = count
       /\ stack' = [stack EXCEPT ![t] =
                       IF outcome = "handler"
                       THEN Append(s, Frame("call", call, "handler"))
                       ELSE Resume(s)]
       /\ lastInv' = Invocation(sig, toolWorkflowActive, outcome, lastToolCallCount')
       /\ runSig' = sig
       /\ runLen' = IF sig = runSig THEN runLen + 1 ELSE 1
       /\ activeSig' = IF toolWorkflowActive THEN sig ELSE activeSig
       /\ activeLen' = IF ~toolWorkflowActive THEN activeLen
                       ELSE IF sig = activeSig THEN activeLen + 1 ELSE 1

\* processToolCall from its entry to its first await (lines 715-728): the
\* gate, the loop protection, the log and the start of the handler.
\* s holds the frames of the caller, which awaits this invocation.
ProcessToolCall(t, s, call) ==
    LET sig == Signature(call)
        count == NextCount(lastToolCall, lastToolCallCount, sig)
        outcome == IF ~toolWorkflowActive THEN "inactive"
                   ELSE IF LoopDetected(count) THEN "loop_detected"
                   ELSE "handler"
    IN /\ invocations < MaxInvocations
       /\ invocations' = invocations + 1
       /\ lastToolCall' = IF toolWorkflowActive THEN sig ELSE lastToolCall
       /\ lastToolCallCount' = IF toolWorkflowActive THEN count ELSE lastToolCallCount
       /\ stack' = [stack EXCEPT ![t] =
                       IF outcome = "handler"
                       THEN Append(s, Frame("call", call, "handler"))
                       ELSE Resume(s)]
       /\ lastInv' = Invocation(sig, toolWorkflowActive, outcome, lastToolCallCount')
       /\ runSig' = sig
       /\ runLen' = IF sig = runSig THEN runLen + 1 ELSE 1
       /\ activeSig' = IF toolWorkflowActive THEN sig ELSE activeSig
       /\ activeLen' = IF ~toolWorkflowActive THEN activeLen
                       ELSE IF sig = activeSig THEN activeLen + 1 ELSE 1

\* The handler has resolved: continue reasoning unless skipContinue is set
AfterHandler(s) ==
    IF Top(s).call.skipContinue THEN Resume(Pop(s)) ELSE SetTop(s, "cont")

Awaiting(t, kind, pc) ==
    /\ stack[t] # <<>>
    /\ Top(stack[t]).kind = kind
    /\ Top(stack[t]).pc = pc

\* sendMessage up to its model request (lines 244-267)
SendMessage ==
    /\ stack[Main] = <<>>
    /\ messages < MaxMessages
    /\ messages' = messages + 1
    /\ toolWorkflowActive' = TRUE
    /\ \E c \in UserContents : lastEntry' = Entry("user", c)
    /\ stack' = [stack EXCEPT ![Main] = <<Frame("send", NoCall, "request")>>]
    /\ UNCHANGED <<lastToolCall, lastToolCallCount, autoReadInProgress, readSnippets,
                   searchResultsShown, invVars, lastCont>>
    /\ UNCHANGED <<execVars, planVars, sumVars, plannerVars, wsVars, splitVars, relayVars, readVars, histVars, extractVars, tripVars, cipherVars, turnVars, recVars, cacheVars, autoVars>>

\* handleOpenAIMessageWithPlan: the reply holds neither a plan nor a tool
\* call, or the request fails and sendMessage reports the error
ReplyText ==
    /\ Awaiting(Main, "send", "request")
    /\ stack' = [stack EXCEPT ![Main] = <<>>]
    /\ UNCHANGED <<lastEntry, toolWorkflowActive, lastToolCall, lastToolCallCount,
                   autoReadInProgress, readSnippets, searchResultsShown, messages,
                   invVars, lastCont>>
    /\ UNCHANGED <<execVars, planVars, sumVars, plannerVars, wsVars, splitVars, relayVars, readVars, histVars, extractVars, tripVars, cipherVars, turnVars, recVars, cacheVars, autoVars>>

\* handleOpenAIMessageWithPlan: no plan, the reply is a tool call
ReplyToolCall ==
    /\ Awaiting(Main, "send", "request")
    /\ \E call \in ModelCalls :
          ProcessToolCall(Main, SetTop(stack[Main], "nested"), call)
    /\ UNCHANGED <<lastEntry, toolWorkflowActive, autoReadInProgress, readSnippets,
                   searchResultsShown, messages, lastCont>>
    /\ UNCHANGED <<execVars, planVars, sumVars, plannerVars, wsVars, splitVars, relayVars, readVars, histVars, extractVars, tripVars, cipherVars, turnVars, recVars, cacheVars, autoVars>>

\* handleOpenAIMessageWithPlan: the reply holds a plan, executePlanSteps starts
ReplyPlan ==
    /\ Awaiting(Main, "send", "request")
    /\ stack' = [stack EXCEPT ![Main] = SetTop(stack[Main], "plan")]
    /\ UNCHANGED <<lastEntry, toolWorkflowActive, lastToolCall, lastToolCallCount,
                   autoReadInProgress, readSnippets, searchResultsShown, messages,
                   invVars, lastCont>>
    /\ UNCHANGED <<execVars, planVars, sumVars, plannerVars, wsVars, splitVars, relayVars, readVars, histVars, extractVars, tripVars, cipherVars, turnVars, recVars, cacheVars, autoVars>>

\* executeSinglePlanStep: the reply for the step is a tool call
PlanStepToolCall ==
    /\ Awaiting(Main, "send", "plan")
    /\ \E call \in ModelCalls :
          ProcessToolCall(Main, SetTop(stack[Main], "planned"), call)
    /\ UNCHANGED <<lastEntry, toolWorkflowActive, autoReadInProgress, readSnippets,
                   searchResultsShown, messages, lastCont>>
    /\ UNCHANGED <<execVars, planVars, sumVars, plannerVars, wsVars, splitVars, relayVars, readVars, histVars, extractVars, tripVars, cipherVars, turnVars, recVars, cacheVars, autoVars>>

\* executePlanSteps after its last step: synthesizeFinalAnswer ends the workflow
PlanFinish ==
    /\ Awaiting(Main, "send", "plan")
    /\ toolWorkflowActive' = FALSE
    /\ stack' = [stack EXCEPT ![Main] = <<>>]
    /\ UNCHANGED <<lastEntry, lastToolCall, lastToolCallCount, autoReadInProgress,
                   readSnippets, searchResultsShown, messages, invVars, lastCont>>
    /\ UNCHANGED <<execVars, planVars, sumVars, plannerVars, wsVars, splitVars, relayVars, readVars, histVars, extractVars, tripVars, cipherVars, turnVars, recVars, cacheVars, autoVars>>

\* toolHandlers.web_search: the results are shown, each with its read-more
\* callback, and pushed to the history; suggestResultsToRead may start the
\* auto-read loop
WebSearchHandler(t) ==
    /\ Awaiting(t, "call", "handler")
    /\ Top(stack[t]).call.tool = "web_search"
    /\ lastEntry' = Entry("assistant", PlainText)
    /\ \E found \in BOOLEAN : \E suggested \in BOOLEAN :
          LET autoRead == found /\ suggested /\ ~autoReadInProgress
          IN /\ searchResultsShown' = (searchResultsShown \/ found)
             /\ autoReadInProgress' = (autoReadInProgress \/ autoRead)
             /\ stack' = [stack EXCEPT ![t] =
                             IF autoRead THEN SetTop(stack[t], "reading")
                             ELSE AfterHandler(stack[t])]
    /\ UNCHANGED <<toolWorkflowActive, lastToolCall, lastToolCallCount, readSnippets,
                   messages, invVars, lastCont>>
    /\ UNCHANGED <<execVars, planVars, sumVars, plannerVars, wsVars, splitVars, relayVars, readVars, histVars, extractVars, tripVars, cipherVars, turnVars, recVars, cacheVars, autoVars>>

\* deepReadUrl: one chunk is read through processToolCall with skipContinue
AutoRead(t) ==
    /\ Awaiting(t, "call", "reading")
    /\ ProcessToolCall(t, stack[t], ChunkCall)
    /\ UNCHANGED <<lastEntry, toolWorkflowActive, autoReadInProgress, readSnippets,
                   searchResultsShown, messages, lastCont>>
    /\ UNCHANGED <<execVars, planVars, sumVars, plannerVars, wsVars, splitVars, relayVars, readVars, histVars, extractVars, tripVars, cipherVars, turnVars, recVars, cacheVars, autoVars>>

\* autoReadAndSummarizeFromSuggestion after its reads: summarizeSnippets, and
\* with snippets synthesizeFinalAnswer, which ends the workflow; with several
\* snippets a failed batch request skips synthesizeFinalAnswer
AutoReadFinish(t) ==
    /\ Awaiting(t, "call", "reading")
    /\ toolWorkflowActive' \in
          IF readSnippets = 0 THEN {toolWorkflowActive}
          ELSE IF readSnippets = 1 THEN {FALSE}
          ELSE {FALSE, toolWorkflowActive}
    /\ readSnippets' = 0
    /\ autoReadInProgress' = FALSE
    /\ stack' = [stack EXCEPT ![t] = AfterHandler(stack[t])]
    /\ UNCHANGED <<lastEntry, lastToolCall, lastToolCallCount, searchResultsShown,
                   messages, invVars, lastCont>>
    /\ UNCHANGED <<execVars, planVars, sumVars, plannerVars, wsVars, splitVars, relayVars, readVars, histVars, extractVars, tripVars, cipherVars, turnVars, recVars, cacheVars, autoVars>>

\* toolHandlers.read_url: an invalid url is reported and nothing is pushed;
\* a page read pushes its text and a snippet; a failed read pushes the error
ReadUrlHandler(t) ==
    /\ Awaiting(t, "call", "handler")
    /\ Top(stack[t]).call.tool = "read_url"
    /\ \E fetched \in BOOLEAN :
          LET valid == Top(stack[t]).call.args # "not-a-url"
          IN /\ lastEntry' = IF valid THEN Entry("assistant", PlainText)
                             ELSE lastEntry
             /\ readSnippets' = IF valid /\ fetched THEN readSnippets + 1
                                ELSE readSnippets
    /\ stack' = [stack EXCEPT ![t] = AfterHandler(stack[t])]
    /\ UNCHANGED <<toolWorkflowActive, lastToolCall, lastToolCallCount,
                   autoReadInProgress, searchResultsShown, messages, invVars, lastCont>>
    /\ UNCHANGED <<execVars, planVars, sumVars, plannerVars, wsVars, splitVars, relayVars, readVars, histVars, extractVars, tripVars, cipherVars, turnVars, recVars, cacheVars, autoVars>>

\* The tool has no handler: the handler call does not succeed and
\* processToolCall ends without a continuation
HandlerFails(t) ==
    /\ Awaiting(t, "call", "handler")
    /\ Top(stack[t]).call.tool \notin ToolRegistry
    /\ stack' = [stack EXCEPT ![t] = Resume(Pop(stack[t]))]
    /\ UNCHANGED <<lastEntry, toolWorkflowActive, lastToolCall, lastToolCallCount,
                   autoReadInProgress, readSnippets, searchResultsShown, messages,
                   invVars, lastCont>>
    /\ UNCHANGED <<execVars, planVars, sumVars, plannerVars, wsVars, splitVars, relayVars, readVars, histVars, extractVars, tripVars, cipherVars, turnVars, recVars, cacheVars, autoVars>>

\* processToolCall after the handler (lines 730-752): warn when the last
\* history entry is a serialized tool call, else ask the model once more
Continue(t) ==
    /\ Awaiting(t, "call", "cont")
    /\ IF IsToolCall(lastEntry)
       THEN /\ lastCont' = Continuation(TRUE, lastEntry, TRUE, 0)
            /\ stack' = [stack EXCEPT ![t] = Resume(Pop(stack[t]))]
       ELSE /\ lastCont' = Continuation(TRUE, lastEntry, FALSE, 1)
            /\ stack' = [stack EXCEPT ![t] = SetTop(stack[t], "request")]
    /\ UNCHANGED <<lastEntry, toolWorkflowActive, lastToolCall, lastToolCallCount,
                   autoReadInProgress, readSnippets, searchResultsShown, messages,
                   invVars>>
    /\ UNCHANGED <<execVars, planVars, sumVars, plannerVars, wsVars, splitVars, relayVars, readVars, histVars, extractVars, tripVars, cipherVars, turnVars, recVars, cacheVars, autoVars>>

\* handleNonStreamingResponse: the reply is text and is pushed to the history
ContinuationText(t) ==
    /\ Awaiting(t, "call", "request")
    /\ lastEntry' = Entry("assistant", PlainText)
    /\ stack' = [stack EXCEPT ![t] = Resume(Pop(stack[t]))]
    /\ UNCHANGED <<toolWorkflowActive, lastToolCall, lastToolCallCount,
                   autoReadInProgress, readSnippets, searchResultsShown, messages,
                   invVars, lastCont>>
    /\ UNCHANGED <<execVars, planVars, sumVars, plannerVars, wsVars, splitVars, relayVars, readVars, histVars, extractVars, tripVars, cipherVars, turnVars, recVars, cacheVars, autoVars>>

\* handleNonStreamingResponse: the reply is a tool call, handed to onToolCall
ContinuationToolCall(t) ==
    /\ Awaiting(t, "call", "request")
    /\ \E call \in ModelCalls :
          ProcessToolCall(t, SetTop(stack[t], "nested"), call)
    /\ UNCHANGED <<lastEntry, toolWorkflowActive, autoReadInProgress, readSnippets,
                   searchResultsShown, messages, lastCont>>
    /\ UNCHANGED <<execVars, planVars, sumVars, plannerVars, wsVars, splitVars, relayVars, readVars, histVars, extractVars, tripVars, cipherVars, turnVars, recVars, cacheVars, autoVars>>

\* handleNonStreamingResponse: the request fails and the error is rethrown
\* through every awaiting caller of the chain
ContinuationError(t) ==
    /\ Awaiting(t, "call", "request")
    /\ stack' = [stack EXCEPT ![t] = <<>>]
    /\ UNCHANGED <<lastEntry, toolWorkflowActive, lastToolCall, lastToolCallCount,
                   autoReadInProgress, readSnippets, searchResultsShown, messages,
                   invVars, lastCont>>
    /\ UNCHANGED <<execVars, planVars, sumVars, plannerVars, wsVars, splitVars, relayVars, readVars, histVars, extractVars, tripVars, cipherVars, turnVars, recVars, cacheVars, autoVars>>

\* The read-more callback of a search result: processToolCall is called and
\* its promise is dropped
ReadMoreClick(t) ==
    /\ t # Main
    /\ stack[t] = <<>>
    /\ searchResultsShown
    /\ ProcessToolCall(t, <<>>, ReadMoreCall)
    /\ UNCHANGED <<lastEntry, toolWorkflowActive, autoReadInProgress, readSnippets,
                   searchResultsShown, messages, lastCont>>
    /\ UNCHANGED <<execVars, planVars, sumVars, plannerVars, wsVars, splitVars, relayVars, readVars, histVars, extractVars, tripVars, cipherVars, turnVars, recVars, cacheVars, autoVars>>

\* clearChat
ClearChat ==
    /\ lastEntry # NoEntry
    /\ lastEntry' = NoEntry
    /\ UNCHANGED <<toolWorkflowActive, lastToolCall, lastToolCallCount,
                   autoReadInProgress, readSnippets, searchResultsShown, stack,
                   messages, invVars, lastCont>>
    /\ UNCHANGED <<execVars, planVars, sumVars, plannerVars, wsVars, splitVars, relayVars, readVars, histVars, extractVars, tripVars, cipherVars, turnVars, recVars, cacheVars, autoVars>>

Init ==
    /\ ExecIdle
    /\ ChatStart

Next ==
    \/ SendMessage
    \/ ReplyText
    \/ ReplyToolCall
    \/ ReplyPlan
    \/ PlanStepToolCall
    \/ PlanFinish
    \/ ClearChat
    \/ \E t \in Tasks :
          \/ WebSearchHandler(t)
          \/ AutoRead(t)
          \/ AutoReadFinish(t)
          \/ ReadUrlHandler(t)
          \/ HandlerFails(t)
          \/ Continue(t)
          \/ ContinuationText(t)
          \/ ContinuationToolCall(t)
          \/ ContinuationError(t)
          \/ ReadMoreClick(t)

Spec == Init /\ [][Next]_vars

----------------------------------------------------------------------------
(* The plan tracker of ChatController (js/chat-controller.js, 1117-1166)   *)
(* A plan is the sequence of its steps' statuses; idx is 0-based as in the *)
(* code, so step idx is element idx + 1.                                   *)

MaxSteps == 3       \* longest plan given to setPlan
MaxPlans == 2       \* plans set in one run of the tracker

PENDING == "pending"
IN_PROGRESS == "in-progress"
DONE == "done"
ERROR == "error"
PLAN_STATUS == {PENDING, IN_PROGRESS, DONE, ERROR}

\* setPlan: the first step in-progress, all the others pending
PlanOf(n) == [k \in 1..n |-> IF k = 1 THEN IN_PROGRESS ELSE PENDING]

\* currentPlan.findIndex(s => s.status === 'in-progress'), -1 if none
FindInProgress(p) ==
    IF \E k \in 1..Len(p) : p[k] = IN_PROGRESS
    THEN (CHOOSE k \in 1..Len(p) :
              /\ p[k] = IN_PROGRESS
              /\ \A m \in 1..(k - 1) : p[m] # IN_PROGRESS) - 1
    ELSE -1

\* completeCurrentStep: the in-progress step becomes done and the step after
\* it, if there is one, becomes in-progress whatever its status was
Completed(p) ==
    LET idx == FindInProgress(p)
    IN IF idx = -1 THEN p
       ELSE [k \in 1..Len(p) |->
                IF k = idx + 1 THEN DONE
                ELSE IF k = idx + 2 THEN IN_PROGRESS
                ELSE p[k]]

\* updatePlanStepStatus as it was before it demoted the other steps
UpdatedKeepingOthers(p, idx, status) ==
    [k \in 1..Len(p) |-> IF k = idx + 1 THEN status ELSE p[k]]

\* updatePlanStepStatus: every other in-progress step goes back to pending,
\* then step idx, if it exists, takes the given status
Updated(p, idx, status) ==
    [k \in 1..Len(p) |->
        IF k = idx + 1 THEN status
        ELSE IF p[k] = IN_PROGRESS THEN PENDING
        ELSE p[k]]

\* handleStreamingResponse's chunk callback with chain-of-thought on: when
\* 'Answer:' first shows, completeCurrentStep; then, when the reply carries
\* thinking, the in-progress step is updated with its own status
AfterChunk(p, answer, thinking) ==
    LET q == IF answer /\ Len(p) > 0 /\ FindInProgress(p) # -1
             THEN Completed(p) ELSE p
        idx == FindInProgress(q)
    IN IF Len(q) > 0 /\ idx # -1 /\ thinking
       THEN Updated(q, idx, q[idx + 1])
       ELSE q

(* The three operations called in any order with any arguments *)

SetPlan(n) ==
    /\ planGen < MaxPlans
    /\ currentPlan' = PlanOf(n)
    /\ planGen' = planGen + 1
    /\ UNCHANGED <<planSteps, planIdx, planPc>>
    /\ UNCHANGED <<execVars, chatVars, sumVars, plannerVars, wsVars, splitVars, relayVars, readVars, histVars, extractVars, tripVars, cipherVars, turnVars, recVars, cacheVars, autoVars>>

UpdatePlanStepStatus(idx, status) ==
    /\ currentPlan' = Updated(currentPlan, idx, status)
    /\ UNCHANGED <<planGen, planSteps, planIdx, planPc>>
    /\ UNCHANGED <<execVars, chatVars, sumVars, plannerVars, wsVars, splitVars, relayVars, readVars, histVars, extractVars, tripVars, cipherVars, turnVars, recVars, cacheVars, autoVars>>

CompleteCurrentStep ==
    /\ currentPlan' = Completed(currentPlan)
    /\ UNCHANGED <<planGen, planSteps, planIdx, planPc>>
    /\ UNCHANGED <<execVars, chatVars, sumVars, plannerVars, wsVars, splitVars, relayVars, readVars, histVars, extractVars, tripVars, cipherVars, turnVars, recVars, cacheVars, autoVars>>

ClearPlan ==
    /\ currentPlan' = <<>>
    /\ UNCHANGED <<planGen, planSteps, planIdx, planPc>>
    /\ UNCHANGED <<execVars, chatVars, sumVars, plannerVars, wsVars, splitVars, relayVars, readVars, histVars, extractVars, tripVars, cipherVars, turnVars, recVars, cacheVars, autoVars>>

NextPlanOps ==
    \/ \E n \in 0..MaxSteps : SetPlan(n)
    \/ \E idx \in 0..MaxSteps, status \in PLAN_STATUS :
          UpdatePlanStepStatus(idx, status)
    \/ CompleteCurrentStep
    \/ ClearPlan

SpecPlanOps == Init /\ [][NextPlanOps]_vars

(* executePlanSteps (445-460) and executeSinglePlanStep (463-531), with    *)
(* what the continuation of a step's tool call does to the plan meanwhile  *)

\* a plan was found in the reply: setPlan, then the loop starts
ExecutePlanSteps(n) ==
    /\ planPc = "idle"
    /\ planGen < MaxPlans
    /\ currentPlan' = PlanOf(n)
    /\ planGen' = planGen + 1
    /\ planSteps' = n
    /\ planIdx' = 0
    /\ planPc' = "step"
    /\ UNCHANGED <<execVars, chatVars, sumVars, plannerVars, wsVars, splitVars, relayVars, readVars, histVars, extractVars, tripVars, cipherVars, turnVars, recVars, cacheVars, autoVars>>

\* executeSinglePlanStep up to its model request
SinglePlanStepBegin ==
    /\ planPc = "step"
    /\ planIdx < planSteps
    /\ currentPlan' = Updated(currentPlan, planIdx, IN_PROGRESS)
    /\ planPc' = "asked"
    /\ UNCHANGED <<planGen, planSteps, planIdx>>
    /\ UNCHANGED <<execVars, chatVars, sumVars, plannerVars, wsVars, splitVars, relayVars, readVars, histVars, extractVars, tripVars, cipherVars, turnVars, recVars, cacheVars, autoVars>>

\* the rest of executeSinglePlanStep once the last reply for the step is in
StepEnd(thinking) ==
    LET p == IF thinking THEN Updated(currentPlan, planIdx, IN_PROGRESS)
             ELSE currentPlan
    IN /\ currentPlan' = Updated(p, planIdx, DONE)
       /\ planIdx' = planIdx + 1
       /\ planPc' = "step"
       /\ UNCHANGED <<planGen, planSteps>>
       /\ UNCHANGED <<execVars, chatVars, sumVars, plannerVars, wsVars, splitVars, relayVars, readVars, histVars, extractVars, tripVars, cipherVars, turnVars, recVars, cacheVars, autoVars>>

\* the reply holds no tool call
StepReplyPlain ==
    /\ planPc = "asked"
    /\ \E thinking \in BOOLEAN : StepEnd(thinking)

\* the reply holds a tool call: processToolCall is awaited
StepReplyToolCall ==
    /\ planPc = "asked"
    /\ planPc' = "tool"
    /\ UNCHANGED <<currentPlan, planGen, planSteps, planIdx>>
    /\ UNCHANGED <<execVars, chatVars, sumVars, plannerVars, wsVars, splitVars, relayVars, readVars, histVars, extractVars, tripVars, cipherVars, turnVars, recVars, cacheVars, autoVars>>

\* the continuation of the tool call streams a reply (644-658, 296-336)
ContinuationChunk ==
    /\ planPc = "tool"
    /\ \E answer \in BOOLEAN, thinking \in BOOLEAN :
          currentPlan' = AfterChunk(currentPlan, answer, thinking)
    /\ UNCHANGED <<planGen, planSteps, planIdx, planPc>>
    /\ UNCHANGED <<execVars, chatVars, sumVars, plannerVars, wsVars, splitVars, relayVars, readVars, histVars, extractVars, tripVars, cipherVars, turnVars, recVars, cacheVars, autoVars>>

\* the continuation's reply is a bare tool call: setPlan(['Call tool: ...'])
ContinuationCallToolPlan ==
    /\ planPc = "tool"
    /\ planGen < MaxPlans
    /\ currentPlan' = PlanOf(1)
    /\ planGen' = planGen + 1
    /\ UNCHANGED <<planSteps, planIdx, planPc>>
    /\ UNCHANGED <<execVars, chatVars, sumVars, plannerVars, wsVars, splitVars, relayVars, readVars, histVars, extractVars, tripVars, cipherVars, turnVars, recVars, cacheVars, autoVars>>

\* processToolCall returns: the follow-up request is sent
ToolCallReturns ==
    /\ planPc = "tool"
    /\ planPc' = "followup"
    /\ UNCHANGED <<currentPlan, planGen, planSteps, planIdx>>
    /\ UNCHANGED <<execVars, chatVars, sumVars, plannerVars, wsVars, splitVars, relayVars, readVars, histVars, extractVars, tripVars, cipherVars, turnVars, recVars, cacheVars, autoVars>>

FollowupReply ==
    /\ planPc = "followup"
    /\ \E thinking \in BOOLEAN : StepEnd(thinking)

\* a model request of the step rejects: the error leaves executePlanSteps
PlanRequestFails ==
    /\ planPc \in {"asked", "followup"}
    /\ planPc' = "idle"
    /\ UNCHANGED <<currentPlan, planGen, planSteps, planIdx>>
    /\ UNCHANGED <<execVars, chatVars, sumVars, plannerVars, wsVars, splitVars, relayVars, readVars, histVars, extractVars, tripVars, cipherVars, turnVars, recVars, cacheVars, autoVars>>

\* the loop is over: the final answer is synthesized
PlanStepsDone ==
    /\ planPc = "step"
    /\ planIdx = planSteps
    /\ planPc' = "idle"
    /\ UNCHANGED <<currentPlan, planGen, planSteps, planIdx>>
    /\ UNCHANGED <<execVars, chatVars, sumVars, plannerVars, wsVars, splitVars, relayVars, readVars, histVars, extractVars, tripVars, cipherVars, turnVars, recVars, cacheVars, autoVars>>

NextPlanRun ==
    \/ \E n \in 1..MaxSteps : ExecutePlanSteps(n)
    \/ SinglePlanStepBegin
    \/ StepReplyPlain
    \/ StepReplyToolCall
    \/ ContinuationChunk
    \/ ContinuationCallToolPlan
    \/ ToolCallReturns
    \/ FollowupReply
    \/ PlanRequestFails
    \/ PlanStepsDone

SpecPlanRun == Init /\ [][NextPlanRun]_vars

----------------------------------------------------------------------------
(* Summarization and final-answer synthesis: ExecutionAgent                *)
(* .summarizeAndSynthesize / .synthesizeFinalAnswer (js/execution-agent.js *)
(* 711-875) and ChatController's summarizeSnippets / synthesizeFinalAnswer *)
(* (js/chat-controller.js, 980-1097), and the end of executePlanSteps      *)
(* (445-460). A text is modelled by its length.                            *)

MaxSnippets == 3    \* snippets collected before summarization
MaxRounds == 2      \* summarization rounds after which the replies are short

MAX_PROMPT_LENGTH == 5857
SeparatorLength == 5            \* '\n---\n'
NoInformationLength == 60      \* 'No relevant information was found ...'
SnippetLengths == {100, 3000}
ReplyLengths == {0, 100, 3000, 6000}
ShortReplyLengths == {0, 100}
Summarizers == {"executor", "chat"}

\* the batch is closed only once it is already over the budget
RECURSIVE SplitLoopLateFlush(_, _, _, _, _)
SplitLoopLateFlush(rest, maxLen, current, currentLen, done) ==
    IF rest = <<>>
    THEN IF Len(current) > 0 THEN Append(done, current) ELSE done
    ELSE LET s == Head(rest)
         IN IF currentLen > maxLen /\ Len(current) > 0
            THEN SplitLoopLateFlush(Tail(rest), maxLen, <<s>>, s,
                                    Append(done, current))
            ELSE SplitLoopLateFlush(Tail(rest), maxLen, Append(current, s),
                                    currentLen + s, done)

\* the snippet that closes a batch is not carried into the next one
RECURSIVE SplitLoopDropping(_, _, _, _, _)
SplitLoopDropping(rest, maxLen, current, currentLen, done) ==
    IF rest = <<>>
    THEN IF Len(current) > 0 THEN Append(done, current) ELSE done
    ELSE LET s == Head(rest)
         IN IF currentLen + s > maxLen /\ Len(current) > 0
            THEN SplitLoopDropping(Tail(rest), maxLen, <<>>, 0,
                                   Append(done, current))
            ELSE SplitLoopDropping(Tail(rest), maxLen, Append(current, s),
                                   currentLen + s, done)

RECURSIVE SplitLoop(_, _, _, _, _)
SplitLoop(rest, maxLen, current, currentLen, done) ==
    IF rest = <<>>
    THEN IF Len(current) > 0 THEN Append(done, current) ELSE done
    ELSE LET s == Head(rest)
         IN IF currentLen + s > maxLen /\ Len(current) > 0
            THEN SplitLoop(Tail(rest), maxLen, <<s>>, s, Append(done, current))
            ELSE SplitLoop(Tail(rest), maxLen, Append(current, s),
                           currentLen + s, done)

splitIntoBatches(snips, maxLen) == SplitLoop(snips, maxLen, <<>>, 0, <<>>)

RECURSIVE TotalLength(_)
TotalLength(parts) ==
    IF parts = <<>> THEN 0 ELSE Head(parts) + TotalLength(Tail(parts))

\* parts.join('\n---\n').length
JoinedLength(parts) ==
    IF parts = <<>> THEN 0
    ELSE TotalLength(parts) + SeparatorLength * (Len(parts) - 1)

\* every non-empty input is split into batches, a single snippet too
EnterBatchingAll(snips) ==
    IF Len(snips) = 0 THEN [pc |-> "done", batches |-> <<>>]
    ELSE [pc |-> "batch", batches |-> splitIntoBatches(snips, MAX_PROMPT_LENGTH)]

\* where summarizeAndSynthesize / summarizeSnippets goes first
Enter(snips) ==
    IF Len(snips) = 0 THEN [pc |-> "done", batches |-> <<>>]
    ELSE IF Len(snips) = 1 THEN [pc |-> "single", batches |-> <<>>]
    ELSE [pc |-> "batch", batches |-> splitIntoBatches(snips, MAX_PROMPT_LENGTH)]

\* synthesizeFinalAnswer up to its model request: without summaries or without
\* a question the executor returns and the controller reports and ends the
\* workflow
SynthesizeEntry(agent, summaries, question, sh, active) ==
    IF summaries = 0 \/ ~question
    THEN IF agent = "executor"
         THEN [pc |-> "done", shown |-> sh, active |-> active]
         ELSE [pc |-> "done", shown |-> sh \cup {"no_info"}, active |-> FALSE]
    ELSE [pc |-> "synth", shown |-> sh, active |-> active]

\* the summarize step of executePlan, or summarizeSnippets() after the reads
SummarizeStart(agent, snips, question) ==
    /\ sumPc = "idle"
    /\ sumAgent' = agent
    /\ snippets' = snips
    /\ userQuery' = question
    /\ sumRound' = 1
    /\ sumPc' = Enter(snips).pc
    /\ batches' = Enter(snips).batches
    /\ UNCHANGED <<batchSummaries, sumCalls, synthCalls, shown, failed>>
    /\ UNCHANGED <<execVars, chatVars, planVars, plannerVars, wsVars, splitVars, relayVars, readVars, histVars, extractVars, tripVars, cipherVars, turnVars, recVars, cacheVars, autoVars>>

\* executePlanSteps after its loop: the snippets joined, or the placeholder
\* text when there are none, go straight to synthesizeFinalAnswer
PlanStepsSynthesize(snips, question) ==
    /\ sumPc = "idle"
    /\ sumAgent' = "chatPlan"
    /\ snippets' = snips
    /\ userQuery' = question
    /\ sumRound' = 1
    /\ LET summary == IF Len(snips) > 0 THEN JoinedLength(snips) ELSE NoInformationLength
           e == SynthesizeEntry("chatPlan", summary, question, shown,
                                toolWorkflowActive)
       IN /\ sumPc' = e.pc
          /\ shown' = e.shown
          /\ toolWorkflowActive' = e.active
    /\ UNCHANGED <<batches, batchSummaries, sumCalls, synthCalls, failed>>
    /\ UNCHANGED <<execVars, chatRest, planVars, plannerVars, wsVars, splitVars, relayVars, readVars, histVars, extractVars, tripVars, cipherVars, turnVars, recVars, cacheVars, autoVars>>

\* the single-snippet request returns
SingleReply ==
    /\ sumPc = "single"
    /\ \E r \in ReplyLengths :
          LET sh == IF r > 0 THEN shown \cup {"summary"} ELSE shown
              e == SynthesizeEntry(sumAgent, r, userQuery, sh, toolWorkflowActive)
          IN /\ sumPc' = e.pc
             /\ shown' = e.shown
             /\ toolWorkflowActive' = e.active
    /\ sumCalls' = sumCalls + 1
    /\ UNCHANGED <<sumAgent, snippets, userQuery, sumRound, batches,
                   batchSummaries, synthCalls, failed>>
    /\ UNCHANGED <<execVars, chatRest, planVars, plannerVars, wsVars, splitVars, relayVars, readVars, histVars, extractVars, tripVars, cipherVars, turnVars, recVars, cacheVars, autoVars>>

\* the single-snippet request throws: the executor reports and returns; the
\* controller reports and goes on to synthesizeFinalAnswer('')
SingleFails ==
    /\ sumPc = "single"
    /\ LET sh == shown \cup {"summarization_failed"}
           e == IF sumAgent = "executor"
                THEN [pc |-> "done", shown |-> sh, active |-> toolWorkflowActive]
                ELSE SynthesizeEntry(sumAgent, 0, userQuery, sh, toolWorkflowActive)
       IN /\ sumPc' = e.pc
          /\ shown' = e.shown
          /\ toolWorkflowActive' = e.active
    /\ sumCalls' = sumCalls + 1
    /\ failed' = TRUE
    /\ UNCHANGED <<sumAgent, snippets, userQuery, sumRound, batches,
                   batchSummaries, synthCalls>>
    /\ UNCHANGED <<execVars, chatRest, planVars, plannerVars, wsVars, splitVars, relayVars, readVars, histVars, extractVars, tripVars, cipherVars, turnVars, recVars, cacheVars, autoVars>>

\* a batch request returns; after the last batch the summaries are combined
\* and either summarized again or handed to synthesizeFinalAnswer
BatchReply ==
    /\ sumPc = "batch"
    /\ \E r \in IF sumRound >= MaxRounds THEN ShortReplyLengths ELSE ReplyLengths :
          LET sums == Append(batchSummaries, r)
              combined == JoinedLength(sums)
              e == SynthesizeEntry(sumAgent, combined, userQuery,
                                   shown \cup {"summary"}, toolWorkflowActive)
          IN IF Len(batches) > 1
             THEN /\ batches' = Tail(batches)
                  /\ batchSummaries' = sums
                  /\ UNCHANGED <<sumPc, sumRound, shown, toolWorkflowActive>>
             ELSE IF combined > MAX_PROMPT_LENGTH
             THEN /\ sumPc' = Enter(sums).pc
                  /\ batches' = Enter(sums).batches
                  /\ batchSummaries' = <<>>
                  /\ sumRound' = sumRound + 1
                  /\ UNCHANGED <<shown, toolWorkflowActive>>
             ELSE /\ sumPc' = e.pc
                  /\ shown' = e.shown
                  /\ toolWorkflowActive' = e.active
                  /\ batches' = <<>>
                  /\ batchSummaries' = sums
                  /\ UNCHANGED sumRound
    /\ sumCalls' = sumCalls + 1
    /\ UNCHANGED <<sumAgent, snippets, userQuery, synthCalls, failed>>
    /\ UNCHANGED <<execVars, chatRest, planVars, plannerVars, wsVars, splitVars, relayVars, readVars, histVars, extractVars, tripVars, cipherVars, turnVars, recVars, cacheVars, autoVars>>

\* a batch request throws: the catch block reports and the function returns
BatchFails ==
    /\ sumPc = "batch"
    /\ sumPc' = "done"
    /\ shown' = shown \cup {"summarization_failed"}
    /\ sumCalls' = sumCalls + 1
    /\ failed' = TRUE
    /\ UNCHANGED <<sumAgent, snippets, userQuery, sumRound, batches,
                   batchSummaries, synthCalls>>
    /\ UNCHANGED <<execVars, chatVars, planVars, plannerVars, wsVars, splitVars, relayVars, readVars, histVars, extractVars, tripVars, cipherVars, turnVars, recVars, cacheVars, autoVars>>

\* the final-answer request returns: the executor narrates a non-empty answer
\* only; the controller shows the answer or a fallback line and ends the
\* workflow
SynthReply ==
    /\ sumPc = "synth"
    /\ \E r \in ShortReplyLengths :
          shown' = IF r > 0 THEN shown \cup {"final_answer"}
                   ELSE IF sumAgent = "executor" THEN shown
                   ELSE shown \cup {"no_final_answer"}
    /\ toolWorkflowActive' = IF sumAgent = "executor" THEN toolWorkflowActive
                             ELSE FALSE
    /\ synthCalls' = synthCalls + 1
    /\ sumPc' = "done"
    /\ UNCHANGED <<sumAgent, snippets, userQuery, sumRound, batches,
                   batchSummaries, sumCalls, failed>>
    /\ UNCHANGED <<execVars, chatRest, planVars, plannerVars, wsVars, splitVars, relayVars, readVars, histVars, extractVars, tripVars, cipherVars, turnVars, recVars, cacheVars, autoVars>>

\* the final-answer request throws
SynthFails ==
    /\ sumPc = "synth"
    /\ shown' = shown \cup {"synthesis_failed"}
    /\ toolWorkflowActive' = IF sumAgent = "executor" THEN toolWorkflowActive
                             ELSE FALSE
    /\ synthCalls' = synthCalls + 1
    /\ failed' = TRUE
    /\ sumPc' = "done"
    /\ UNCHANGED <<sumAgent, snippets, userQuery, sumRound, batches,
                   batchSummaries, sumCalls>>
    /\ UNCHANGED <<execVars, chatRest, planVars, plannerVars, wsVars, splitVars, relayVars, readVars, histVars, extractVars, tripVars, cipherVars, turnVars, recVars, cacheVars, autoVars>>

NextSummarize ==
    \/ \E agent \in Summarizers, snips \in SeqsUpTo(SnippetLengths, MaxSnippets),
          question \in BOOLEAN : SummarizeStart(agent, snips, question)
    \/ \E snips \in SeqsUpTo(SnippetLengths, MaxSnippets), question \in BOOLEAN :
          PlanStepsSynthesize(snips, question)
    \/ SingleReply
    \/ SingleFails
    \/ BatchReply
    \/ BatchFails
    \/ SynthReply
    \/ SynthFails

SpecSummarize == Init /\ [][NextSummarize]_vars

----------------------------------------------------------------------------
(* PlanningAgent.createPlan (js/planning-agent.js, 3-62) with              *)
(* SearchTermGeneratorAgent.generateSearchTerms (js/memory-agent.js, 39-74)*)

MaxTerms == 3       \* search terms in a reply of the model
MaxReadSteps == 2   \* largest options.readStepsPerTerm given

DefaultReadSteps == 3

\* options.readStepsPerTerm || 3, an absent option and 0 being both falsy
ReadStepsPerTerm(option) == IF option = 0 THEN DefaultReadSteps ELSE option

PlanStep(n, tool, query) == [step |-> n, tool |-> tool, query |-> query]

\* the numbering of the first planner: 1 for the search, 2 + i for the
\* reads, 5 for the summary
RECURSIVE BuildPlanFixedNumbers(_, _, _)
BuildPlanFixedNumbers(terms, stepNum, reads) ==
    IF terms = <<>> THEN <<PlanStep(5, "summarize", NoQuery)>>
    ELSE <<PlanStep(1, "web_search", Head(terms))>>
         \o [k \in 1..reads |-> PlanStep(2 + (k - 1), "read_url", NoQuery)]
         \o BuildPlanFixedNumbers(Tail(terms), stepNum, reads)

\* the inner loop: one read_url step pushed per round, each with stepNum++
RECURSIVE ReadPushes(_, _, _)
ReadPushes(stepNum, k, reads) ==
    IF k < reads
    THEN <<PlanStep(stepNum, "read_url", NoQuery)>>
         \o ReadPushes(stepNum + 1, k + 1, reads)
    ELSE <<>>

\* the outer loop and the closing summarize step, each push with stepNum++
RECURSIVE BuildPlan(_, _, _)
BuildPlan(terms, stepNum, reads) ==
    IF terms = <<>> THEN <<PlanStep(stepNum, "summarize", NoQuery)>>
    ELSE LET pushed == ReadPushes(stepNum + 1, 0, reads)
         IN <<PlanStep(stepNum, "web_search", Head(terms))>> \o pushed
            \o BuildPlan(Tail(terms), stepNum + 1 + Len(pushed), reads)

\* the fallback of generateSearchTerms: the query, with the last topic put
\* before a short one, and three more terms for a broad query
FallbackTerms(query, short, broad) ==
    <<IF short THEN "topic q" ELSE query>>
    \o (IF broad THEN <<"topic specs", "topic review", "topic price">> ELSE <<>>)

\* createPlan up to generateSearchTerms; without a generator the query is
\* the only term and the plan is returned at once
CreatePlan(query, option, generator) ==
    /\ plannerPc = "idle"
    /\ plannerQuery' = query
    /\ readStepsPerTerm' = ReadStepsPerTerm(option)
    /\ IF generator
       THEN /\ plannerPc' = "generating"
            /\ UNCHANGED <<generation, searchTerms, createdPlan>>
       ELSE /\ plannerPc' = "returned"
            /\ generation' = "absent"
            /\ searchTerms' = <<query>>
            /\ createdPlan' = BuildPlan(<<query>>, 1, ReadStepsPerTerm(option))
    /\ UNCHANGED <<execVars, chatVars, planVars, sumVars, wsVars, splitVars, relayVars, readVars, histVars, extractVars, tripVars, cipherVars, turnVars, recVars, cacheVars, autoVars>>

\* generateSearchTerms returns the model's array, or its own fallback when
\* the request or JSON.parse throws or the reply is no non-empty array
TermsReturned ==
    /\ plannerPc = "generating"
    /\ \/ /\ generation' = "model"
          /\ searchTerms' \in SeqsUpTo(Queries, MaxTerms) \ {<<>>}
       \/ /\ generation' = "fallback"
          /\ \E short \in BOOLEAN, broad \in BOOLEAN :
                searchTerms' = FallbackTerms(plannerQuery, short, broad)
    /\ createdPlan' = BuildPlan(searchTerms', 1, readStepsPerTerm)
    /\ plannerPc' = "returned"
    /\ UNCHANGED <<plannerQuery, readStepsPerTerm>>
    /\ UNCHANGED <<execVars, chatVars, planVars, sumVars, wsVars, splitVars, relayVars, readVars, histVars, extractVars, tripVars, cipherVars, turnVars, recVars, cacheVars, autoVars>>

\* generateSearchTerms raises in its fallback (getRelevantContext reads
\* last.facts.topic with no turn recorded): createPlan's catch rethrows
TermsRaise ==
    /\ plannerPc = "generating"
    /\ generation' = "raised"
    /\ plannerPc' = "thrown"
    /\ UNCHANGED <<plannerQuery, readStepsPerTerm, searchTerms, createdPlan>>
    /\ UNCHANGED <<execVars, chatVars, planVars, sumVars, wsVars, splitVars, relayVars, readVars, histVars, extractVars, tripVars, cipherVars, turnVars, recVars, cacheVars, autoVars>>

NextPlanner ==
    \/ \E query \in Queries, option \in 0..MaxReadSteps, generator \in BOOLEAN :
          CreatePlan(query, option, generator)
    \/ TermsReturned
    \/ TermsRaise

SpecPlanner == Init /\ [][NextPlanner]_vars

----------------------------------------------------------------------------
(* toolHandlers.web_search (js/tool-handlers.js, 9-106): the search loop   *)
(* with query refinement, and the removal of duplicate results             *)

MaxHits == 3        \* results of one ToolsService.webSearch call

MAX_ATTEMPTS == 3
EnoughResults == 3
Urls == {"u1", "u2", "u3"}
RefinedQueries == {"", "q1", "q2", "q3"}

\* a repeated url is dropped only when it directly follows its first copy
RECURSIVE DedupeAdjacent(_, _)
DedupeAdjacent(rs, seenUrls) ==
    IF rs = <<>> THEN <<>>
    ELSE IF Head(rs) \in seenUrls
         THEN DedupeAdjacent(Tail(rs), seenUrls)
         ELSE <<Head(rs)>> \o DedupeAdjacent(Tail(rs), {Head(rs)})

\* the loop over allResults with the set seenUrls
RECURSIVE Dedupe(_, _)
Dedupe(rs, seenUrls) ==
    IF rs = <<>> THEN <<>>
    ELSE IF Head(rs) \in seenUrls
         THEN Dedupe(Tail(rs), seenUrls)
         ELSE <<Head(rs)>> \o Dedupe(Tail(rs), seenUrls \cup {Head(rs)})

\* any non-empty reply is taken as the next query
AcceptsAnyReply(aiReply, tried) == aiReply # ""

\* aiReply && !queriesTried.includes(aiReply)
AcceptsReply(aiReply, tried) ==
    aiReply # "" /\ \A k \in 1..Len(tried) : tried[k] # aiReply

\* results.length >= 3 || attempts === MAX_ATTEMPTS - 1
LoopBreaks(found, n) == Len(found) >= EnoughResults \/ n = MAX_ATTEMPTS - 1

\* the handler is called with a valid query: the first search is sent
WsStart(query) ==
    /\ wsPc = "idle"
    /\ wsPc' = "searching"
    /\ queriesTried' = <<query>>
    /\ searched' = <<query>>
    /\ UNCHANGED <<attempts, allResults, uniqueResults, declined>>
    /\ UNCHANGED <<execVars, chatVars, planVars, sumVars, plannerVars, splitVars, relayVars, readVars, histVars, extractVars, tripVars, cipherVars, turnVars, recVars, cacheVars, autoVars>>

\* the search returns: the loop ends, or the model is asked for a better query
WsResults ==
    /\ wsPc = "searching"
    /\ \E found \in SeqsUpTo(Urls, MaxHits) :
          /\ allResults' = allResults \o found
          /\ IF LoopBreaks(found, attempts)
             THEN /\ wsPc' = "done"
                  /\ uniqueResults' = Dedupe(allResults', {})
             ELSE /\ wsPc' = "asking"
                  /\ UNCHANGED uniqueResults
    /\ UNCHANGED <<queriesTried, attempts, searched, declined>>
    /\ UNCHANGED <<execVars, chatVars, planVars, sumVars, plannerVars, splitVars, relayVars, readVars, histVars, extractVars, tripVars, cipherVars, turnVars, recVars, cacheVars, autoVars>>

\* the search throws: the loop ends
WsFails ==
    /\ wsPc = "searching"
    /\ wsPc' = "done"
    /\ uniqueResults' = Dedupe(allResults, {})
    /\ UNCHANGED <<queriesTried, attempts, allResults, searched, declined>>
    /\ UNCHANGED <<execVars, chatVars, planVars, sumVars, plannerVars, splitVars, relayVars, readVars, histVars, extractVars, tripVars, cipherVars, turnVars, recVars, cacheVars, autoVars>>

\* the model answers the request for a better query
WsRefine ==
    /\ wsPc = "asking"
    /\ \E aiReply \in RefinedQueries :
          /\ declined' = (aiReply = "" \/ aiReply \in Range(queriesTried))
          /\ IF AcceptsReply(aiReply, queriesTried)
             THEN /\ queriesTried' = Append(queriesTried, aiReply)
                  /\ attempts' = attempts + 1
                  /\ searched' = Append(searched, queriesTried'[attempts' + 1])
                  /\ wsPc' = "searching"
                  /\ UNCHANGED uniqueResults
             ELSE /\ wsPc' = "done"
                  /\ uniqueResults' = Dedupe(allResults, {})
                  /\ UNCHANGED <<queriesTried, attempts, searched>>
    /\ UNCHANGED allResults
    /\ UNCHANGED <<execVars, chatVars, planVars, sumVars, plannerVars, splitVars, relayVars, readVars, histVars, extractVars, tripVars, cipherVars, turnVars, recVars, cacheVars, autoVars>>

\* the request for a better query throws: the loop ends
WsRefineFails ==
    /\ wsPc = "asking"
    /\ wsPc' = "done"
    /\ uniqueResults' = Dedupe(allResults, {})
    /\ UNCHANGED <<queriesTried, attempts, allResults, searched, declined>>
    /\ UNCHANGED <<execVars, chatVars, planVars, sumVars, plannerVars, splitVars, relayVars, readVars, histVars, extractVars, tripVars, cipherVars, turnVars, recVars, cacheVars, autoVars>>

NextWebSearch ==
    \/ \E query \in Queries : WsStart(query)
    \/ WsResults
    \/ WsFails
    \/ WsRefine
    \/ WsRefineFails

SpecWebSearch == Init /\ [][NextWebSearch]_vars

----------------------------------------------------------------------------
(* splitIntoBatches (js/execution-agent.js, 716-731; js/chat-controller.js,*)
(* 915-932) for any snippets and any budget                                *)

MaxSnippetLength == 3   \* longest snippet given to splitIntoBatches
MaxBudget == 4          \* largest maxLen given to splitIntoBatches

\* one call, on snippets and a budget chosen freely
SplitCall(snips, maxLen) ==
    /\ splitSnippets = <<>>
    /\ splitSnippets' = snips
    /\ splitBudget' = maxLen
    /\ splitBatches' = splitIntoBatches(snips, maxLen)
    /\ UNCHANGED <<execVars, chatVars, planVars, sumVars, plannerVars, wsVars, relayVars, readVars, histVars, extractVars, tripVars, cipherVars, turnVars, recVars, cacheVars, autoVars>>

NextSplit ==
    \E snips \in SeqsUpTo(0..MaxSnippetLength, MaxSnippets), maxLen \in 0..MaxBudget :
        SplitCall(snips, maxLen)

SpecSplit == Init /\ [][NextSplit]_vars

----------------------------------------------------------------------------
(* ToolsService.webSearch (js/tools-service.js, 83-137): the proxies are   *)
(* sorted by health score once per call and tried in that order            *)

MaxSearchCalls == 3     \* webSearch calls in one run

InitialHealth == 1
HealthStep == 2
proxies == <<"p1", "p2", "p3">>

\* proxyHealth.get(name) || fallback
ScoreOr(health, name, fallback) ==
    IF health[name] = 0 THEN fallback ELSE health[name]

\* the comparator with its operands swapped: lowest score first
RECURSIVE SortAscending(_, _)
SortAscending(ps, health) ==
    IF ps = <<>> THEN <<>>
    ELSE LET rest == SortAscending(SubSeq(ps, 1, Len(ps) - 1), health)
             p == ps[Len(ps)]
             before == {k \in 1..Len(rest) :
                           ScoreOr(health, rest[k], 0) <= ScoreOr(health, p, 0)}
             n == Cardinality(before)
         IN SubSeq(rest, 1, n) \o <<p>> \o SubSeq(rest, n + 1, Len(rest))

\* proxies.slice().sort((a, b) => score(b) - score(a)): a stable sort, highest
\* score first, ties in the order of the proxies array
RECURSIVE SortByHealth(_, _)
SortByHealth(ps, health) ==
    IF ps = <<>> THEN <<>>
    ELSE LET rest == SortByHealth(SubSeq(ps, 1, Len(ps) - 1), health)
             p == ps[Len(ps)]
             before == {k \in 1..Len(rest) :
                           ScoreOr(health, rest[k], 0) >= ScoreOr(health, p, 0)}
             n == Cardinality(before)
         IN SubSeq(rest, 1, n) \o <<p>> \o SubSeq(rest, n + 1, Len(rest))

\* webSearch up to its first fetch
WebSearchCall ==
    /\ relayPc = "idle"
    /\ searchCalls < MaxSearchCalls
    /\ searchCalls' = searchCalls + 1
    /\ sortedProxies' = SortByHealth(proxies, proxyHealth)
    /\ rankAtSort' = [p \in Range(proxies) |->
                         InitialHealth + HealthStep * wins[p] - HealthStep * losses[p]]
    /\ proxyIdx' = 0
    /\ relayPc' = "trying"
    /\ UNCHANGED <<proxyHealth, wins, losses>>
    /\ UNCHANGED <<execVars, chatVars, planVars, sumVars, plannerVars, wsVars, splitVars, readVars, histVars, extractVars, tripVars, cipherVars, turnVars, recVars, cacheVars, autoVars>>

\* the proxy answers with results: it is rewarded and webSearch returns
ProxySucceeds ==
    /\ relayPc = "trying"
    /\ LET p == sortedProxies[proxyIdx + 1]
       IN /\ proxyHealth' = [proxyHealth EXCEPT
                                ![p] = ScoreOr(proxyHealth, p, 1) + HealthStep]
          /\ wins' = [wins EXCEPT ![p] = @ + 1]
    /\ relayPc' = "idle"
    /\ UNCHANGED <<sortedProxies, proxyIdx, searchCalls, losses, rankAtSort>>
    /\ UNCHANGED <<execVars, chatVars, planVars, sumVars, plannerVars, wsVars, splitVars, readVars, histVars, extractVars, tripVars, cipherVars, turnVars, recVars, cacheVars, autoVars>>

\* the fetch fails, the status is not ok or no result is parsed: the proxy is
\* penalized and the next one is tried; after the last one webSearch throws
ProxyFails ==
    /\ relayPc = "trying"
    /\ LET p == sortedProxies[proxyIdx + 1]
       IN /\ proxyHealth' = [proxyHealth EXCEPT
                                ![p] = ScoreOr(proxyHealth, p, 1) - HealthStep]
          /\ losses' = [losses EXCEPT ![p] = @ + 1]
    /\ proxyIdx' = proxyIdx + 1
    /\ relayPc' = IF proxyIdx + 1 < Len(sortedProxies) THEN "trying" ELSE "idle"
    /\ UNCHANGED <<sortedProxies, searchCalls, wins, rankAtSort>>
    /\ UNCHANGED <<execVars, chatVars, planVars, sumVars, plannerVars, wsVars, splitVars, readVars, histVars, extractVars, tripVars, cipherVars, turnVars, recVars, cacheVars, autoVars>>

NextRelays ==
    \/ WebSearchCall
    \/ ProxySucceeds
    \/ ProxyFails

SpecRelays == Init /\ [][NextRelays]_vars

----------------------------------------------------------------------------
(* Adaptive reading of one url: the read_url branch of the executor         *)
(* (js/execution-agent.js, 530-596), deepReadUrl (js/chat-controller.js,    *)
(* 812-843) and AutoReaderAgent.readAdaptively (js/auto-reader-agent.js,    *)
(* 81-108)                                                                  *)

chunkSize == 2000
maxChunks == 5
maxTotalLength == 10000
EllipsisLength == 3         \* '...' the handler appends when there is more text
ObjectStringLength == 15    \* String({ error }) is '[object Object]'

Readers == {"executor", "deepReadUrl", "readAdaptively"}
PageLengths == {0, 1500, 2000, 4500, 10000, 12000}
Answers == {"yes", "no", "throws"}

Min(a, b) == IF a < b THEN a ELSE b

\* String(result).slice(start, start + length).length
SliceLength(page, start, length) ==
    IF page <= start THEN 0 ELSE Min(length, page - start)

\* the loop condition without the cap on the number of chunks
LoopContinuesUncapped(r, count, total) ==
    IF r = "readAdaptively" THEN TRUE
    ELSE total < maxTotalLength

\* while (shouldContinue && chunkCount < maxChunks && totalLength < 10000), or
\* for (let i = 0; i < maxChunks; i++); shouldContinue is true at the loop head
LoopContinues(r, count, total) ==
    IF r = "readAdaptively" THEN count < maxChunks
    ELSE count < maxChunks /\ total < maxTotalLength

\* the length of the snippet the reader takes from one read_url call, 0 when
\* it takes none
SnippetLength(r, outcome, page, start) ==
    LET n == SliceLength(page, start, chunkSize)
        hasMore == start + chunkSize < page
    IN CASE r = "executor" ->
                IF outcome = "snippet" THEN n ELSE 0
         [] r = "deepReadUrl" ->
                IF outcome = "snippet"
                THEN n + (IF hasMore THEN EllipsisLength ELSE 0)
                ELSE 0
         [] OTHER ->
                IF outcome = "snippet" THEN n ELSE ObjectStringLength

ReadBegin(r, page) ==
    /\ readPc = "idle"
    /\ reader' = r
    /\ pageLength' = page
    /\ readPc' = "loop"
    /\ UNCHANGED <<readStart, chunkCount, totalLength, fetches, lengthAtFetch>>
    /\ UNCHANGED <<execVars, chatVars, planVars, sumVars, plannerVars, wsVars, splitVars, relayVars, histVars, extractVars, tripVars, cipherVars, turnVars, recVars, cacheVars, autoVars>>

\* one pass of the loop up to the question: the handler returns a snippet,
\* returns an error object, or throws
ReadChunk(outcome) ==
    /\ readPc = "loop"
    /\ LoopContinues(reader, chunkCount, totalLength)
    /\ fetches' = fetches + 1
    /\ lengthAtFetch' = totalLength
    /\ LET n == SnippetLength(reader, outcome, pageLength, readStart)
           stops == \/ outcome = "throws"
                    \/ reader # "readAdaptively" /\ n = 0
       IN /\ totalLength' = IF outcome = "throws" THEN totalLength
                            ELSE totalLength + n
          /\ readPc' = IF stops THEN "done" ELSE "asking"
    /\ UNCHANGED <<reader, pageLength, readStart, chunkCount>>
    /\ UNCHANGED <<execVars, chatVars, planVars, sumVars, plannerVars, wsVars, splitVars, relayVars, histVars, extractVars, tripVars, cipherVars, turnVars, recVars, cacheVars, autoVars>>

\* the loop condition fails
ReadLoopEnds ==
    /\ readPc = "loop"
    /\ ~LoopContinues(reader, chunkCount, totalLength)
    /\ readPc' = "done"
    /\ UNCHANGED <<reader, pageLength, readStart, chunkCount, totalLength,
                   fetches, lengthAtFetch>>
    /\ UNCHANGED <<execVars, chatVars, planVars, sumVars, plannerVars, wsVars, splitVars, relayVars, histVars, extractVars, tripVars, cipherVars, turnVars, recVars, cacheVars, autoVars>>

\* the model's answer: "yes" asks for more content in the executor and in
\* deepReadUrl, and says that the content is enough in readAdaptively
ReadAnswer(aiReply) ==
    /\ readPc = "asking"
    /\ LET more == IF reader = "readAdaptively" THEN aiReply = "no"
                   ELSE aiReply = "yes" /\ totalLength < maxTotalLength
       IN /\ readPc' = IF more THEN "loop" ELSE "done"
          /\ readStart' = IF more THEN readStart + chunkSize ELSE readStart
          /\ chunkCount' = IF more THEN chunkCount + 1 ELSE chunkCount
    /\ UNCHANGED <<reader, pageLength, totalLength, fetches, lengthAtFetch>>
    /\ UNCHANGED <<execVars, chatVars, planVars, sumVars, plannerVars, wsVars, splitVars, relayVars, histVars, extractVars, tripVars, cipherVars, turnVars, recVars, cacheVars, autoVars>>

NextRead ==
    \/ \E r \in Readers, page \in PageLengths : ReadBegin(r, page)
    \/ \E outcome \in {"snippet", "error", "throws"} : ReadChunk(outcome)
    \/ ReadLoopEnds
    \/ \E aiReply \in Answers : ReadAnswer(aiReply)

SpecRead == Init /\ [][NextRead]_vars

----------------------------------------------------------------------------
(* state.chatHistory (js/chat-controller.js): seeded by init (171-211),    *)
(* emptied by clearChat (225-229), pushed to by sendMessage (244-293), by  *)
(* the response handlers (364-366, 423-431, 637) and by the tool handlers  *)
(* (1573-1684)                                                             *)

MaxHistory == 4     \* entries in the history
MaxClears == 2      \* clearChat calls in one run

Contents == {"a", "b"}
Models == {"gpt", "gemini"}

HistoryEntry(role, content) == [role |-> role, content |-> content]

\* a sendMessage that starts from a history of its own
TurnStartFresh(history, model, message) ==
    <<HistoryEntry("user", message)>>

\* sendMessage up to its first request (263, 268-270, 637): the user's
\* message is pushed; for a Gemini model an empty history first gets an
\* empty user entry
TurnStart(history, model, message) ==
    IF model = "gpt" THEN Append(history, HistoryEntry("user", message))
    ELSE Append(IF history = <<>> THEN <<HistoryEntry("user", "")>> ELSE history,
                HistoryEntry("user", message))

SendMessageStart(model, message) ==
    /\ Len(TurnStart(chatHistory, model, message)) <= MaxHistory
    /\ chatHistory' = TurnStart(chatHistory, model, message)
    /\ turns' = turns + 1
    /\ UNCHANGED clears
    /\ UNCHANGED <<execVars, chatVars, planVars, sumVars, plannerVars, wsVars, splitVars, relayVars, readVars, extractVars, tripVars, cipherVars, turnVars, recVars, cacheVars, autoVars>>

\* a reply of the model or a tool handler's account of its result is pushed
PushAssistant(content) ==
    /\ Len(chatHistory) < MaxHistory
    /\ chatHistory' = Append(chatHistory, HistoryEntry("assistant", content))
    /\ UNCHANGED <<turns, clears>>
    /\ UNCHANGED <<execVars, chatVars, planVars, sumVars, plannerVars, wsVars, splitVars, relayVars, readVars, extractVars, tripVars, cipherVars, turnVars, recVars, cacheVars, autoVars>>

clearChat ==
    /\ clears < MaxClears
    /\ chatHistory' = <<>>
    /\ clears' = clears + 1
    /\ UNCHANGED turns
    /\ UNCHANGED <<execVars, chatVars, planVars, sumVars, plannerVars, wsVars, splitVars, relayVars, readVars, extractVars, tripVars, cipherVars, turnVars, recVars, cacheVars, autoVars>>

NextHistory ==
    \/ \E model \in Models, message \in Contents : SendMessageStart(model, message)
    \/ \E content \in Contents : PushAssistant(content)
    \/ clearChat

SpecHistory == Init /\ [][NextHistory]_vars

----------------------------------------------------------------------------
(* extractToolCall (js/chat-controller.js, 38-152 and 1488-1525) as a       *)
(* function of what the text contains, and the dispatch of its result by   *)
(* the callers (337-341, 1943-1947) and processToolCall (2176-2194)        *)

\* A JavaScript value by the properties the code tests: absent (undefined),
\* null, a falsy scalar ('' or 0), a truthy scalar, an array, a mapping
JsValues == {"absent", "null", "falsy", "scalar", "array", "mapping"}
Truthy(v) == v \in {"scalar", "array", "mapping"}
TypeofObject(v) == v \in {"null", "array", "mapping"}
Primitive(v) == v \in {"falsy", "scalar"}

\* The value of a tool member: absent, the name of a registered tool, another
\* name, or a number
ToolValues == {"absent", "web_search", "no_such_tool", "number"}
ToolNames == {"web_search", "no_such_tool"}

\* What a text contains.  form: the tool call is between [[TOOLCALL]]
\* delimiters, or the text has a '{...}' and no delimiters, or it has neither
\* and matches toolCallPattern, or none of these.  payload: what JSON.parse
\* makes of the delimited or braced part.
Text(form, payload, tool, arguments, toolCall, tcArguments, tcQuery, query,
     patKey, patArg) ==
    [form |-> form, payload |-> payload, tool |-> tool, arguments |-> arguments,
     toolCall |-> toolCall, tcArguments |-> tcArguments, tcQuery |-> tcQuery,
     query |-> query, patKey |-> patKey, patArg |-> patArg]

PlainTexts ==
    {Text("plain", "none", "absent", "absent", "absent", "absent", "absent",
          "absent", "none", "none")}
\* tool: web_search, arguments: ...   or   tool: web_search, query: "..."
PatternTexts ==
    {Text("pattern", "none", t, "absent", "absent", "absent", "absent", "absent",
          k, a) :
        t \in ToolNames, k \in {"arguments", "query"},
        a \in {"mapping", "array", "scalar", "unparseable"}}
\* [[TOOLCALL]]...[[/TOOLCALL]] around nothing, null, a scalar or an array
ValueTexts ==
    {Text("delimited", p, "absent", "absent", "absent", "absent", "absent",
          "absent", "none", "none") :
        p \in {"empty", "null", "scalar", "array"}}
\* text that JSON.parse rejects, which fallbackPattern may match
BrokenTexts ==
    {Text(f, "unparseable", t, "absent", "absent", "absent", "absent", "absent",
          k, a) :
        f \in {"delimited", "braces"}, t \in ToolNames,
        k \in {"none", "arguments", "query"}, a \in {"mapping", "scalar"}}
\* a JSON object with tool, arguments, tool_call and query members; tool_call
\* is absent, a scalar, or an object with a tool, arguments and query
ObjectTexts ==
    {Text(f, "object", t, a, tc, tca, tcq, q, "none", "none") :
        f \in {"delimited", "braces"}, t \in ToolValues, a \in JsValues,
        tc \in {"absent", "scalar", "object"}, tca \in JsValues,
        tcq \in {"absent", "scalar"}, q \in {"absent", "scalar"}}
Texts == PlainTexts \cup PatternTexts \cup ValueTexts \cup BrokenTexts \cup ObjectTexts

Extracted(tool, arguments) == [kind |-> "call", tool |-> tool, arguments |-> arguments]
ExtractedNull == [kind |-> "null"]
ExtractionThrows == [kind |-> "throws"]

\* toolCallPattern and fallbackPattern matched (63-78, 95-106): arguments is
\* what JSON.parse makes of the matched text, {} when it fails, and
\* { query: ... } for the other keys
PatternCall(text) ==
    Extracted(text.tool,
              IF text.patKey = "arguments" /\ text.patArg # "unparseable"
              THEN text.patArg ELSE "mapping")

\* the first '{...}' is matched lazily and stops at the first '}': a nested
\* mapping is cut off
CutOff(text) ==
    /\ text.form = "braces"
    /\ text.payload = "object"
    /\ text.arguments = "mapping" \/ text.toolCall = "object"

\* a normalization that takes any parsed object for a tool call
NormalizedAnyObject(text) ==
    Extracted(IF text.tool = "absent" THEN "web_search" ELSE text.tool, "mapping")

\* 116-151 on a parsed object
Normalized(text) ==
    CASE text.tool # "absent" /\ TypeofObject(text.arguments) ->
            Extracted(text.tool, text.arguments)
      [] text.toolCall = "object" ->
            IF Truthy(text.tcArguments) /\ text.tcQuery = "scalar"
                 /\ Primitive(text.tcArguments)
            THEN ExtractionThrows   \* args.query = ... on a primitive, strict mode
            ELSE Extracted("web_search",
                           IF Truthy(text.tcArguments) THEN text.tcArguments
                           ELSE "mapping")
      [] text.tool # "absent" /\ text.query = "scalar" ->
            Extracted(text.tool, "mapping")
      [] OTHER -> ExtractedNull

\* 38-152
extractToolCall1(text, sanitizer) ==
    CASE text.form = "plain" -> ExtractedNull
      [] text.form = "pattern" -> PatternCall(text)
      [] text.payload = "empty" -> ExtractedNull
      [] ~sanitizer -> ExtractedNull    \* ReferenceError, caught at 111
      [] text.payload = "unparseable" ->
            IF text.patKey # "none" THEN PatternCall(text) ELSE ExtractedNull
      [] CutOff(text) -> ExtractedNull
      [] text.payload = "null" -> ExtractionThrows      \* obj.tool of null
      [] text.payload \in {"scalar", "array"} -> ExtractedNull
      [] OTHER -> Normalized(text)

\* 1488-1525; a braced text is taken only if it starts with {"tool":
extractToolCall2(text) ==
    CASE text.form \in {"plain", "pattern"} -> ExtractedNull
      [] text.form = "braces" /\ (text.payload # "object" \/ text.tool = "absent") ->
            ExtractedNull
      [] text.payload \in {"empty", "unparseable"} -> ExtractedNull
      [] text.payload = "null" -> ExtractionThrows      \* typeof null is 'object'
      [] text.payload = "scalar" -> ExtractedNull
      [] text.payload = "array" -> ExtractedNull
      [] OTHER ->
            IF text.tool \in ToolNames /\ TypeofObject(text.arguments)
            THEN Extracted(text.tool, text.arguments)
            ELSE ExtractedNull

ExtractToolCall(text, rev, sanitizer) ==
    /\ extractPc = "idle"
    /\ replyText' = text
    /\ revision' = rev
    /\ sanitizerInScope' = sanitizer
    /\ extraction' = IF rev = 1 THEN extractToolCall1(text, sanitizer)
                     ELSE extractToolCall2(text)
    /\ extractPc' = "extracted"
    /\ UNCHANGED handled
    /\ UNCHANGED <<execVars, chatVars, planVars, sumVars, plannerVars, wsVars, splitVars, relayVars, readVars, histVars, tripVars, cipherVars, turnVars, recVars, cacheVars, autoVars>>

\* if (toolCall && toolCall.tool && toolCall.arguments) processToolCall(toolCall),
\* which calls toolHandlers[tool](args): a TypeError when the tool has no handler
DispatchToolCall ==
    /\ extractPc = "extracted"
    /\ extraction.kind = "call"
    /\ Truthy(extraction.arguments)
    /\ extractPc' = "dispatched"
    /\ handled' = IF extraction.tool \in ToolRegistry
                  THEN [tool |-> extraction.tool, arguments |-> extraction.arguments]
                  ELSE handled
    /\ UNCHANGED <<replyText, revision, sanitizerInScope, extraction>>
    /\ UNCHANGED <<execVars, chatVars, planVars, sumVars, plannerVars, wsVars, splitVars, relayVars, readVars, histVars, tripVars, cipherVars, turnVars, recVars, cacheVars, autoVars>>

NextExtract ==
    \/ \E text \in Texts, rev \in {1, 2}, sanitizer \in BOOLEAN :
          ExtractToolCall(text, rev, sanitizer)
    \/ DispatchToolCall

SpecExtract == Init /\ [][NextExtract]_vars

----------------------------------------------------------------------------
(* extractToolCall on the JSON serialization of a tool call: the lazy match *)
(* of the first '{...}' (js/chat-controller.js, 58, 1496), the closing of   *)
(* unbalanced braces (1499-1504) and JSON.parse (89, 1512)                  *)

MaxMembers == 3     \* members of the arguments mapping

\* The value of a member: a string, a string that contains '}', an empty
\* mapping, a mapping with one string member
MemberValues == {"string", "brace-string", "empty-mapping", "mapping"}

\* Tokens of the text: "{", "}", "key" for a member name with its colon,
\* "tool" for "tool":"web_search", "arguments" for "arguments":, "string",
\* "brace-string", and "cut-string" for a string cut at its '}'
ValueTokens(v) ==
    CASE v = "string" -> <<"string">>
      [] v = "brace-string" -> <<"brace-string">>
      [] v = "empty-mapping" -> <<"{", "}">>
      [] OTHER -> <<"{", "key", "string", "}">>

RECURSIVE MemberTokens(_)
MemberTokens(members) ==
    IF members = <<>> THEN <<>>
    ELSE <<"key">> \o ValueTokens(Head(members)) \o MemberTokens(Tail(members))

\* JSON.stringify({ tool, arguments })
Stringify(members) ==
    <<"{", "tool", "arguments", "{">> \o MemberTokens(members) \o <<"}", "}">>

HasClosingBrace(token) == token \in {"}", "brace-string", "cut-string"}
CountOf(tokens, P(_)) == Cardinality({k \in 1..Len(tokens) : P(tokens[k])})
IsOpen(token) == token = "{"
IsClose(token) == token = "}"

\* text.match(/\{[\s\S]*?\}/): from the first '{' to the first '}' character,
\* also when that character is inside a string
LazyMatch(tokens) ==
    LET first == CHOOSE k \in 1..Len(tokens) :
                    /\ HasClosingBrace(tokens[k])
                    /\ \A j \in 1..(k - 1) : ~HasClosingBrace(tokens[j])
    IN IF tokens[first] = "}" THEN SubSeq(tokens, 1, first)
       ELSE SubSeq(tokens, 1, first - 1) \o <<"cut-string">>

\* jsonStr += '}'.repeat(openCount - closeCount) when openCount > closeCount
AutoClose(tokens) ==
    LET openCount == CountOf(tokens, IsOpen)
        closeCount == CountOf(tokens, HasClosingBrace)
    IN IF openCount > closeCount
       THEN tokens \o [k \in 1..(openCount - closeCount) |-> "}"]
       ELSE tokens

\* JSON.parse accepts the text: no string is cut and every mapping is closed
\* (the text is a serialization cut after a '}' and followed by '}' only)
Parses(tokens) ==
    /\ \A k \in 1..Len(tokens) : tokens[k] # "cut-string"
    /\ CountOf(tokens, IsOpen) = CountOf(tokens, IsClose)

\* 52-110: the match is parsed as it is; the fallback pattern needs tool
\* followed by ':' or '=', which a quoted member name is not
ExtractFromJson1(tokens, sanitizer) ==
    LET jsonStr == LazyMatch(tokens)
    IN IF sanitizer /\ Parses(jsonStr) THEN jsonStr ELSE <<>>

\* 1494-1524: the match starts with {"tool": and is closed before parsing
ExtractFromJson2(tokens) ==
    LET jsonStr == AutoClose(LazyMatch(tokens))
    IN IF Parses(jsonStr) THEN jsonStr ELSE <<>>

SerializeCall(members, rev, sanitizer) ==
    /\ tripPc = "idle"
    /\ callArguments' = members
    /\ tripRevision' = rev
    /\ tripSanitizer' = sanitizer
    /\ serialized' = Stringify(members)
    /\ tripPc' = "serialized"
    /\ UNCHANGED parsedBack
    /\ UNCHANGED <<execVars, chatVars, planVars, sumVars, plannerVars, wsVars, splitVars, relayVars, readVars, histVars, extractVars, cipherVars, turnVars, recVars, cacheVars, autoVars>>

ExtractSerialized ==
    /\ tripPc = "serialized"
    /\ parsedBack' = IF tripRevision = 1
                     THEN ExtractFromJson1(serialized, tripSanitizer)
                     ELSE ExtractFromJson2(serialized)
    /\ tripPc' = "extracted"
    /\ UNCHANGED <<callArguments, tripRevision, tripSanitizer, serialized>>
    /\ UNCHANGED <<execVars, chatVars, planVars, sumVars, plannerVars, wsVars, splitVars, relayVars, readVars, histVars, extractVars, cipherVars, turnVars, recVars, cacheVars, autoVars>>

NextRoundTrip ==
    \/ \E n \in 0..MaxMembers, rev \in {1, 2}, sanitizer \in BOOLEAN :
          \E members \in [1..n -> MemberValues] :
             SerializeCall(members, rev, sanitizer)
    \/ ExtractSerialized

SpecRoundTrip == Init /\ [][NextRoundTrip]_vars

----------------------------------------------------------------------------
(* Utils.encrypt and Utils.decrypt (js/utils.test.js, 61-92): an XOR cipher *)
(* over the UTF-8 bytes of the text, written as groups of decimal digits    *)

MaxTextLength == 2      \* characters of the text
MaxKeyLength == 2       \* characters of the key

GroupLength == 3        \* padStart(3, '0') and slice(i, i + 3)

\* 'A', 'z', e acute; 'k', '1', the euro sign
TextChars == {65, 122, 233}
KeyChars == {107, 49, 8364}

RECURSIVE Xor(_, _)
Xor(a, b) ==
    IF a = 0 THEN b
    ELSE IF b = 0 THEN a
    ELSE 2 * Xor(a \div 2, b \div 2) + (((a % 2) + (b % 2)) % 2)

\* TextEncoder.encode of one character below U+0800
Utf8(c) == IF c < 128 THEN <<c>> ELSE <<192 + (c \div 64), 128 + (c % 64)>>

RECURSIVE Encode(_)
Encode(text) == IF text = <<>> THEN <<>> ELSE Utf8(Head(text)) \o Encode(Tail(text))

\* n.toString(): the decimal digits of n
RECURSIVE ToDigits(_)
ToDigits(n) == IF n < 10 THEN <<n>> ELSE Append(ToDigits(n \div 10), n % 10)

\* s.padStart(3, '0'): zeros in front up to three digits, nothing is cut
PadStart(ds) ==
    IF Len(ds) >= GroupLength THEN ds
    ELSE [k \in 1..(GroupLength - Len(ds)) |-> 0] \o ds

\* parseInt of a string of digits
RECURSIVE ParseInt(_)
ParseInt(ds) ==
    IF ds = <<>> THEN 0 ELSE (10 * ParseInt(SubSeq(ds, 1, Len(ds) - 1))) + ds[Len(ds)]

\* key.charCodeAt(i % key.length), i from 0
KeyCharAt(key, pos) == key[(pos % Len(key)) + 1]

\* encrypt (79-92)
RECURSIVE EncryptFrom(_, _, _)
EncryptFrom(textBytes, key, pos) ==
    IF pos >= Len(textBytes) THEN <<>>
    ELSE PadStart(ToDigits(Xor(textBytes[pos + 1], KeyCharAt(key, pos))))
            \o EncryptFrom(textBytes, key, pos + 1)
encrypt(text, key) == EncryptFrom(Encode(text), key, 0)

\* decrypt (61-71): the loop makes one character of each group of three
\* digits; encoding the result and decoding it again gives the same string
RECURSIVE DecryptFrom(_, _, _)
DecryptFrom(ct, key, pos) ==
    IF pos >= Len(ct) THEN <<>>
    ELSE LET last == IF pos + GroupLength < Len(ct) THEN pos + GroupLength ELSE Len(ct)
             encryptedChar == ParseInt(SubSeq(ct, pos + 1, last))
         IN <<Xor(encryptedChar, KeyCharAt(key, pos \div GroupLength))>>
               \o DecryptFrom(ct, key, pos + GroupLength)
decrypt(ct, key) == DecryptFrom(ct, key, 0)

Encrypt(text, key) ==
    /\ cipherPc = "idle"
    /\ plainText' = text
    /\ cipherKey' = key
    /\ ciphertext' = encrypt(text, key)
    /\ cipherPc' = "encrypted"
    /\ UNCHANGED decrypted
    /\ UNCHANGED <<execVars, chatVars, planVars, sumVars, plannerVars, wsVars, splitVars, relayVars, readVars, histVars, extractVars, tripVars, turnVars, recVars, cacheVars, autoVars>>

Decrypt ==
    /\ cipherPc = "encrypted"
    /\ decrypted' = decrypt(ciphertext, cipherKey)
    /\ cipherPc' = "decrypted"
    /\ UNCHANGED <<plainText, cipherKey, ciphertext>>
    /\ UNCHANGED <<execVars, chatVars, planVars, sumVars, plannerVars, wsVars, splitVars, relayVars, readVars, histVars, extractVars, tripVars, turnVars, recVars, cacheVars, autoVars>>

NextCipher ==
    \/ \E n \in 0..MaxTextLength, m \in 1..MaxKeyLength :
          \E text \in [1..n -> TextChars], key \in [1..m -> KeyChars] :
             Encrypt(text, key)
    \/ Decrypt

SpecCipher == Init /\ [][NextCipher]_vars

----------------------------------------------------------------------------
(* The read cache: readUrlChunkWithCache (js/chat-controller.js, 772-787)   *)
(* over processToolCall (715-729) and the read_url handler                  *)
(* (js/tool-handlers.js, 119-150).  A text is named by the url and the      *)
(* start of the window it was sliced from; state.readCache is a function    *)
(* on the keys that were set.                                               *)

CacheUrls == {"u1", "not-a-url"}
CacheStarts == {0, chunkSize}

\* `${url}:${start}:${chunkSize}`
CacheKeyOf(url, start) == <<url, start, chunkSize>>

\* String(result).slice(start, start + length) of the page at url
Fetched(url, start) == [url |-> url, start |-> start]
\* ''
EmptyText == [url |-> "-", start |-> 0]

\* history entries: 'Read content from <url>:\n<text>', 'Read URL failed: ...'
\* and any other entry
ReadEntry(url, start) == [kind |-> "read", url |-> url, start |-> start]
FailedEntry == [kind |-> "failed", url |-> "-", start |-> 0]
OtherEntry == [kind |-> "other", url |-> "-", start |-> 0]

NoReturn == [key |-> <<>>, text |-> EmptyText]

\* /^https?:\/\//.test(args.url)
ValidUrl(url) == url # "not-a-url"

\* lines 779-785: the text after the first line of the last history entry when
\* that entry starts with 'Read content from', else ''
SnippetOf(entry) ==
    IF entry.kind = "read" THEN Fetched(entry.url, entry.start) ELSE EmptyText

\* state.readCache.set(cacheKey, snippet), made only for such an entry
Stored(cache, key, entry) ==
    IF entry.kind = "read"
    THEN [k \in DOMAIN cache \cup {key} |->
             IF k = key THEN SnippetOf(entry) ELSE cache[k]]
    ELSE cache

\* readUrlChunkWithCache up to the first await that suspends it: a cache hit
\* returns the cached text; on a miss processToolCall returns at once when the
\* workflow is inactive or the call is rejected as a loop, else the handler
\* starts
ReadUrlChunkWithCache(url, start) ==
    LET key == CacheKeyOf(url, start)
        sig == <<"read_url", url, start, chunkSize>>
        count == NextCount(cacheLastToolCall, cacheLastToolCallCount, sig)
    IN /\ cachePc = "idle"
       /\ IF key \in DOMAIN readCache
          THEN /\ returned' = [key |-> key, text |-> readCache[key]]
               /\ UNCHANGED <<readCache, cachePc, cacheKey, cacheLastToolCall,
                              cacheLastToolCallCount>>
          ELSE IF ~workflowActive
          THEN /\ readCache' = Stored(readCache, key, historyLast)
               /\ returned' = [key |-> key, text |-> SnippetOf(historyLast)]
               /\ UNCHANGED <<cachePc, cacheKey, cacheLastToolCall,
                              cacheLastToolCallCount>>
          ELSE /\ count <= MaxRepeatCount
               /\ cacheLastToolCall' = sig
               /\ cacheLastToolCallCount' = count
               /\ IF LoopDetected(count)
                  THEN /\ readCache' = Stored(readCache, key, historyLast)
                       /\ returned' = [key |-> key, text |-> SnippetOf(historyLast)]
                       /\ UNCHANGED <<cachePc, cacheKey>>
                  ELSE /\ cachePc' = "handler"
                       /\ cacheKey' = key
                       /\ UNCHANGED <<readCache, returned>>
       /\ UNCHANGED <<historyLast, workflowActive>>
       /\ UNCHANGED <<execVars, chatVars, planVars, sumVars, plannerVars, wsVars, splitVars, relayVars, readVars, histVars, extractVars, tripVars, cipherVars, turnVars, recVars, autoVars>>

\* the read_url handler ends and readUrlChunkWithCache goes on after its
\* await: an invalid url is reported on the page only; a fetched page pushes
\* 'Read content from ...', a failed fetch 'Read URL failed: ...'
ReadUrlEnds(fetched) ==
    /\ cachePc = "handler"
    /\ LET url == cacheKey[1]
           last == IF ~ValidUrl(url) THEN historyLast
                   ELSE IF fetched THEN ReadEntry(url, cacheKey[2])
                   ELSE FailedEntry
       IN /\ historyLast' = last
          /\ readCache' = Stored(readCache, cacheKey, last)
          /\ returned' = [key |-> cacheKey, text |-> SnippetOf(last)]
    /\ cachePc' = "idle"
    /\ cacheKey' = <<>>
    /\ UNCHANGED <<workflowActive, cacheLastToolCall, cacheLastToolCallCount>>
    /\ UNCHANGED <<execVars, chatVars, planVars, sumVars, plannerVars, wsVars, splitVars, relayVars, readVars, histVars, extractVars, tripVars, cipherVars, turnVars, recVars, autoVars>>

\* synthesizeFinalAnswer has ended the workflow (1067-1097)
CacheWorkflowEnds ==
    /\ cachePc = "idle"
    /\ workflowActive
    /\ workflowActive' = FALSE
    /\ UNCHANGED <<readCache, cachePc, cacheKey, historyLast, cacheLastToolCall,
                   cacheLastToolCallCount, returned>>
    /\ UNCHANGED <<execVars, chatVars, planVars, sumVars, plannerVars, wsVars, splitVars, relayVars, readVars, histVars, extractVars, tripVars, cipherVars, turnVars, recVars, autoVars>>

\* sendMessage: the user message is pushed and the workflow activated (244-250)
CacheSendMessage ==
    /\ cachePc = "idle"
    /\ ~workflowActive \/ historyLast # OtherEntry
    /\ workflowActive' = TRUE
    /\ historyLast' = OtherEntry
    /\ UNCHANGED <<readCache, cachePc, cacheKey, cacheLastToolCall,
                   cacheLastToolCallCount, returned>>
    /\ UNCHANGED <<execVars, chatVars, planVars, sumVars, plannerVars, wsVars, splitVars, relayVars, readVars, histVars, extractVars, tripVars, cipherVars, turnVars, recVars, autoVars>>

NextCache ==
    \/ \E url \in CacheUrls, start \in CacheStarts : ReadUrlChunkWithCache(url, start)
    \/ \E fetched \in BOOLEAN : ReadUrlEnds(fetched)
    \/ CacheWorkflowEnds
    \/ CacheSendMessage

SpecCache == Init /\ [][NextCache]_vars

----------------------------------------------------------------------------
(* The runs of autoReadAndSummarizeFromSuggestion (js/chat-controller.js,   *)
(* 846-873), each called by suggestResultsToRead (876-910) at the end of a  *)
(* web_search handler.  The chains of calls that can be at a web_search     *)
(* handler at the same time are the one sendMessage awaits and those the    *)
(* read-more callbacks start.                                               *)

MaxUrls == 2        \* most urls the suggestion maps to search results

Chains == {"chain1", "chain2", "chain3"}

\* a run is in progress from line 861 to the end of the finally block
Running == {c \in Chains : runPc[c] \in {"reading", "summarizing"}}

RunLog(how, refused) == [ended |-> how, declined |-> refused]

\* the flag is not looked at
OverlapsUnchecked(flag) == FALSE

\* line 848: if (state.autoReadInProgress) return
Overlaps(flag) == flag

chatButFlag == <<lastEntry, toolWorkflowActive, lastToolCall, lastToolCallCount,
                 readSnippets, searchResultsShown, stack, messages, invVars,
                 lastCont>>

\* suggestResultsToRead up to its model request
SuggestResultsToRead(c) ==
    /\ runPc[c] = "idle"
    /\ runPc' = [runPc EXCEPT ![c] = "suggest"]
    /\ UNCHANGED <<urlsLeft, runLog, autoReadInProgress, chatButFlag>>
    /\ UNCHANGED <<execVars, planVars, sumVars, plannerVars, wsVars, splitVars,
                   relayVars, readVars, histVars, extractVars, tripVars,
                   cipherVars, turnVars, recVars, cacheVars>>

\* the request fails or the reply is empty: no run is started
SuggestionEmpty(c) ==
    /\ runPc[c] = "suggest"
    /\ runPc' = [runPc EXCEPT ![c] = "idle"]
    /\ UNCHANGED <<urlsLeft, runLog, autoReadInProgress, chatButFlag>>
    /\ UNCHANGED <<execVars, planVars, sumVars, plannerVars, wsVars, splitVars,
                   relayVars, readVars, histVars, extractVars, tripVars,
                   cipherVars, turnVars, recVars, cacheVars>>

\* autoReadAndSummarizeFromSuggestion from its entry to its first await
\* (847-865): it returns when a run is in progress or when the reply maps to
\* no url (n = 0), else it sets the flag and starts to read
AutoReadAndSummarize(c, n) ==
    /\ runPc[c] = "suggest"
    /\ IF Overlaps(autoReadInProgress)
       THEN /\ runPc' = [runPc EXCEPT ![c] = "idle"]
            /\ runLog' = RunLog(runLog.ended, TRUE)
            /\ UNCHANGED <<urlsLeft, autoReadInProgress>>
       ELSE IF n = 0
       THEN /\ runPc' = [runPc EXCEPT ![c] = "idle"]
            /\ UNCHANGED <<urlsLeft, runLog, autoReadInProgress>>
       ELSE /\ autoReadInProgress' = TRUE
            /\ runPc' = [runPc EXCEPT ![c] = "reading"]
            /\ urlsLeft' = [urlsLeft EXCEPT ![c] = n]
            /\ runLog' = RunLog("-", FALSE)
    /\ UNCHANGED chatButFlag
    /\ UNCHANGED <<execVars, planVars, sumVars, plannerVars, wsVars, splitVars,
                   relayVars, readVars, histVars, extractVars, tripVars,
                   cipherVars, turnVars, recVars, cacheVars>>

\* deepReadUrl returns for one url; after the last one summarizeSnippets starts
DeepReadReturns(c) ==
    /\ runPc[c] = "reading"
    /\ urlsLeft' = [urlsLeft EXCEPT ![c] = @ - 1]
    /\ runPc' = [runPc EXCEPT ![c] = IF urlsLeft[c] = 1 THEN "summarizing"
                                     ELSE "reading"]
    /\ UNCHANGED <<runLog, autoReadInProgress, chatButFlag>>
    /\ UNCHANGED <<execVars, planVars, sumVars, plannerVars, wsVars, splitVars,
                   relayVars, readVars, histVars, extractVars, tripVars,
                   cipherVars, turnVars, recVars, cacheVars>>

\* summarizeSnippets returns: the finally block resets the flag
RunCompletes(c) ==
    /\ runPc[c] = "summarizing"
    /\ autoReadInProgress' = FALSE
    /\ runPc' = [runPc EXCEPT ![c] = "idle"]
    /\ runLog' = RunLog("completed", runLog.declined)
    /\ UNCHANGED <<urlsLeft, chatButFlag>>
    /\ UNCHANGED <<execVars, planVars, sumVars, plannerVars, wsVars, splitVars,
                   relayVars, readVars, histVars, extractVars, tripVars,
                   cipherVars, turnVars, recVars, cacheVars>>

\* deepReadUrl or summarizeSnippets throws: the finally block resets the flag
\* and suggestResultsToRead drops the exception
RunThrows(c) ==
    /\ runPc[c] \in {"reading", "summarizing"}
    /\ autoReadInProgress' = FALSE
    /\ runPc' = [runPc EXCEPT ![c] = "idle"]
    /\ urlsLeft' = [urlsLeft EXCEPT ![c] = 0]
    /\ runLog' = RunLog("threw", runLog.declined)
    /\ UNCHANGED chatButFlag
    /\ UNCHANGED <<execVars, planVars, sumVars, plannerVars, wsVars, splitVars,
                   relayVars, readVars, histVars, extractVars, tripVars,
                   cipherVars, turnVars, recVars, cacheVars>>

NextAutoRead ==
    \E c \in Chains :
        \/ SuggestResultsToRead(c)
        \/ SuggestionEmpty(c)
        \/ \E n \in 0..MaxUrls : AutoReadAndSummarize(c, n)
        \/ DeepReadReturns(c)
        \/ RunCompletes(c)
        \/ RunThrows(c)

SpecAutoRead == Init /\ [][NextAutoRead]_vars

----------------------------------------------------------------------------
(* The recursion of summarizeAndSynthesize (js/execution-agent.js, 711-828; *)
(* summarizeSnippets of js/chat-controller.js, 980-1030, has the same       *)
(* shape).  The round number is passed down only to be written into the     *)
(* narration, so the state of a round is its batches and its summaries.     *)
(* Every reply length is possible in every round.                           *)

\* the call with round = 1
RecursionStart(snips) ==
    /\ recPc = "idle"
    /\ recPc' = IF Len(snips) = 0 THEN "returned" ELSE Enter(snips).pc
    /\ recBatches' = Enter(snips).batches
    /\ recSummaries' = <<>>
    /\ UNCHANGED <<execVars, chatVars, planVars, sumVars, plannerVars, wsVars, splitVars, relayVars, readVars, histVars, extractVars, tripVars, cipherVars, turnVars, cacheVars, autoVars>>

\* the single-snippet request returns: its reply, of whatever length, goes to
\* synthesizeFinalAnswer
RecursionSingleReply ==
    /\ recPc = "single"
    /\ recPc' = "synth"
    /\ UNCHANGED <<recBatches, recSummaries>>
    /\ UNCHANGED <<execVars, chatVars, planVars, sumVars, plannerVars, wsVars, splitVars, relayVars, readVars, histVars, extractVars, tripVars, cipherVars, turnVars, cacheVars, autoVars>>

\* a request of either branch throws: 'Summarization failed' is reported
RecursionRequestFails ==
    /\ recPc \in {"single", "batch"}
    /\ recPc' = "failed"
    /\ UNCHANGED <<recBatches, recSummaries>>
    /\ UNCHANGED <<execVars, chatVars, planVars, sumVars, plannerVars, wsVars, splitVars, relayVars, readVars, histVars, extractVars, tripVars, cipherVars, turnVars, cacheVars, autoVars>>

\* after the last batch: an over-long combination is summarized again
RoundEnds(sums) ==
    IF JoinedLength(sums) > MAX_PROMPT_LENGTH
    THEN [pc |-> Enter(sums).pc, batches |-> Enter(sums).batches,
          summaries |-> <<>>]
    ELSE [pc |-> "synth", batches |-> <<>>, summaries |-> sums]

\* a batch request returns a reply of length r
RecursionBatchReply(r) ==
    /\ recPc = "batch"
    /\ LET sums == Append(recSummaries, r)
       IN IF Len(recBatches) > 1
          THEN /\ recBatches' = Tail(recBatches)
               /\ recSummaries' = sums
               /\ UNCHANGED recPc
          ELSE /\ recPc' = RoundEnds(sums).pc
               /\ recBatches' = RoundEnds(sums).batches
               /\ recSummaries' = RoundEnds(sums).summaries
    /\ UNCHANGED <<execVars, chatVars, planVars, sumVars, plannerVars, wsVars, splitVars, relayVars, readVars, histVars, extractVars, tripVars, cipherVars, turnVars, cacheVars, autoVars>>

\* the steps taken once the call was made: every request returns or throws
RecursionStep ==
    \/ RecursionSingleReply
    \/ RecursionRequestFails
    \/ \E r \in ReplyLengths : RecursionBatchReply(r)

NextRecursion ==
    \/ \E snips \in SeqsUpTo(SnippetLengths, MaxSnippets) : RecursionStart(snips)
    \/ RecursionSingleReply
    \/ RecursionRequestFails
    \/ \E r \in ReplyLengths : RecursionBatchReply(r)

SpecRecursion == Init /\ [][NextRecursion]_vars /\ WF_vars(RecursionStep)

----------------------------------------------------------------------------
(* One user turn as the chain sendMessage -> model request -> tool call ->  *)
(* handler -> model request ... (js/chat-controller.js, 244-293, 384-442,  *)
(* 695-753).  Every caller of the chain only awaits the call it made and   *)
(* returns after it (397-398, 745-752), so the chain has ended when its    *)
(* innermost call has.  Nothing is counted but what the program counts.    *)


\* sendMessage up to its model request: the message is pushed to the history
\* and the workflow activated; the loop protection state is left as it is
TurnSend(content) ==
    /\ turnPc \in {"idle", "ended"}
    /\ turnLastEntry' = Entry("user", content)
    /\ turnPc' = "request"
    /\ turnIssued' = {}
    /\ UNCHANGED <<turnCall, turnLastToolCall, turnLastToolCallCount>>
    /\ UNCHANGED <<execVars, chatVars, planVars, sumVars, plannerVars, wsVars, splitVars, relayVars, readVars, histVars, extractVars, tripVars, cipherVars, recVars, cacheVars, autoVars>>

\* handleNonStreamingResponse: the reply is text and is pushed to the history
TurnReplyText ==
    /\ turnPc = "request"
    /\ turnLastEntry' = Entry("assistant", PlainText)
    /\ turnPc' = "ended"
    /\ UNCHANGED <<turnCall, turnLastToolCall, turnLastToolCallCount, turnIssued>>
    /\ UNCHANGED <<execVars, chatVars, planVars, sumVars, plannerVars, wsVars, splitVars, relayVars, readVars, histVars, extractVars, tripVars, cipherVars, recVars, cacheVars, autoVars>>

\* the request fails: the error is rethrown to sendMessage, which reports it
TurnReplyError ==
    /\ turnPc = "request"
    /\ turnPc' = "ended"
    /\ UNCHANGED <<turnCall, turnLastToolCall, turnLastToolCallCount, turnLastEntry,
                   turnIssued>>
    /\ UNCHANGED <<execVars, chatVars, planVars, sumVars, plannerVars, wsVars, splitVars, relayVars, readVars, histVars, extractVars, tripVars, cipherVars, recVars, cacheVars, autoVars>>

\* the reply is a tool call: processToolCall up to the handler (715-728)
TurnReplyToolCall(call) ==
    /\ turnPc = "request"
    /\ LET sig == Signature(call)
           count == NextCount(turnLastToolCall, turnLastToolCallCount, sig)
       IN /\ count <= MaxRepeatCount
          /\ turnLastToolCall' = sig
          /\ turnLastToolCallCount' = count
          /\ turnPc' = IF LoopDetected(count) THEN "ended" ELSE "handler"
          /\ turnCall' = IF LoopDetected(count) THEN NoCall ELSE call
          /\ turnIssued' = turnIssued \cup {sig}
    /\ UNCHANGED turnLastEntry
    /\ UNCHANGED <<execVars, chatVars, planVars, sumVars, plannerVars, wsVars, splitVars, relayVars, readVars, histVars, extractVars, tripVars, cipherVars, recVars, cacheVars, autoVars>>

\* the handler has run: a tool without a handler ends processToolCall; a
\* search and a read of a valid url push their account to the history
TurnHandler ==
    /\ turnPc = "handler"
    /\ turnPc' = IF turnCall.tool \in ToolRegistry THEN "continue" ELSE "ended"
    /\ turnLastEntry' = IF turnCall.tool \in ToolRegistry /\ turnCall.args # "not-a-url"
                        THEN Entry("assistant", PlainText)
                        ELSE turnLastEntry
    /\ turnCall' = NoCall
    /\ UNCHANGED <<turnLastToolCall, turnLastToolCallCount, turnIssued>>
    /\ UNCHANGED <<execVars, chatVars, planVars, sumVars, plannerVars, wsVars, splitVars, relayVars, readVars, histVars, extractVars, tripVars, cipherVars, recVars, cacheVars, autoVars>>

\* processToolCall after the handler (730-752): warn and stop when the last
\* history entry is a serialized tool call, else ask the model again
TurnContinue ==
    /\ turnPc = "continue"
    /\ turnPc' = IF IsToolCall(turnLastEntry) THEN "ended" ELSE "request"
    /\ UNCHANGED <<turnCall, turnLastToolCall, turnLastToolCallCount, turnLastEntry,
                   turnIssued>>
    /\ UNCHANGED <<execVars, chatVars, planVars, sumVars, plannerVars, wsVars, splitVars, relayVars, readVars, histVars, extractVars, tripVars, cipherVars, recVars, cacheVars, autoVars>>

\* clearChat between two turns: the history is emptied, nothing else is reset
TurnClearChat ==
    /\ turnPc \in {"idle", "ended"}
    /\ turnLastEntry # NoEntry
    /\ turnLastEntry' = NoEntry
    /\ UNCHANGED <<turnPc, turnCall, turnLastToolCall, turnLastToolCallCount,
                   turnIssued>>
    /\ UNCHANGED <<execVars, chatVars, planVars, sumVars, plannerVars, wsVars, splitVars, relayVars, readVars, histVars, extractVars, tripVars, cipherVars, recVars, cacheVars, autoVars>>

\* the steps the program takes by itself
TurnStep ==
    \/ TurnReplyText
    \/ TurnReplyError
    \/ \E call \in ModelCalls : TurnReplyToolCall(call)
    \/ TurnHandler
    \/ TurnContinue

NextTurn ==
    \/ \E content \in UserContents : TurnSend(content)
    \/ TurnClearChat
    \/ TurnStep

\* a pending request is answered and a running handler returns
SpecTurn == Init /\ [][NextTurn]_vars /\ WF_vars(TurnStep)


----------------------------------------------------------------------------
(* Properties of executePlan *)

PlanIds == [k \in 1..Len(plan) |-> plan[k].id]

CallsOf(id) == {k \in 1..Len(calls) : calls[k].id = id}

C3_RemainingStepsProcessedOnceInOrder ==
    (epc = "done" /\ thrown = 0) =>
        SelectSeq(processed, LAMBDA id : id \in Range(PlanIds)) = PlanIds

C5_EmptySearchInsertsFallback ==
    (lastEvent.kind = "ws_empty" /\ ~lastEvent.hadForQuery) =>
        /\ i < Len(plan)
        /\ plan[i + 1].tool = "instant_answer"
        /\ plan[i + 1].query = lastEvent.query
        /\ Cardinality({k \in 1..Len(plan) : plan[k].tool = "instant_answer"
                                              /\ plan[k].query = lastEvent.query}) = 1

\* C9: once a step has failed local validation (unregistered tool, or a query
\* the handler rejects), an error is recorded for it and no later step is taken up.
C9_ValidationFailureHalts ==
    invalid # 0 =>
        /\ \E k \in 1..Len(results) : results[k].id = invalid /\ results[k].kind = "error"
        /\ processed[Len(processed)] = invalid

\* The result array returned by the most recent web_search invocation before
\* invocation k that returned an array.
LastResultSetBefore(k) ==
    LET ms == {m \in 1..(k - 1) : calls[m].tool = "web_search" /\ calls[m].ret.isArray}
    IN IF ms = {} THEN NullResults
       ELSE calls[CHOOSE m \in ms : \A o \in ms : o <= m].ret

\* The 1-based position of step id among the read_url steps of the plan.
ReadUrlPosition(id) == IndexOfStep(ReadUrlSteps(plan), id) + 1

----------------------------------------------------------------------------
(* Properties of the tool-call loop of ChatController *)

\* C1: among the processToolCall invocations made while the tool workflow is
\* active, the 4th and every later invocation of a run of identical
\* tool-and-arguments signatures is rejected with the loop-detected message
\* and starts no handler, and the first three of the run start their handler
\* (so the handler of the 3rd is the last one executed).
C1_LoopProtection ==
    lastInv.active =>
        /\ (activeLen > 3 => lastInv.outcome = "loop_detected")
        /\ (activeLen <= 3 => lastInv.outcome = "handler")

\* The 4th identical invocation in a row has just been rejected
C1_Witness ==
    /\ lastInv.active
    /\ activeLen = 4
    /\ lastInv.outcome = "loop_detected"

C7_NoConcurrentToolCalls ==
    ~(HandlerInFlight(Main) /\ HandlerInFlight(Click))

\* C8 as stated: after every processToolCall invocation the repeat count
\* equals the length of the current run of consecutive identical calls.
C8_CountIsRunOfAllInvocations ==
    invocations > 0 => lastInv.count = runLen

\* C8: after every processToolCall invocation the stored signature and the
\* repeat count are those of the current run of consecutive identical calls
\* among the invocations made while the tool workflow was active: such an
\* invocation increments the count when its signature equals the stored one
\* and otherwise stores it with count 1; an invocation made while the
\* workflow is inactive changes neither.
C8_CountIsRunOfActiveInvocations ==
    invocations > 0 =>
        /\ lastInv.count = activeLen
        /\ lastToolCallCount = activeLen
        /\ lastToolCall = activeSig

\* An invocation has just incremented the count of a run that began after a
\* different call
C8_Witness ==
    /\ lastInv.active
    /\ invocations > 2
    /\ lastInv.count = 2

----------------------------------------------------------------------------
(* Properties of the result selection of executePlan *)

\* C11: the result selection of a web_search step changes only read_url steps
\* that are still pending: a read_url step whose handler was already invoked
\* stays in the plan, with the url it was read with.
C11_ExecutedStepsUntouched ==
    \A k \in 1..Len(calls) :
        calls[k].tool = "read_url" =>
            \E j \in 1..Len(plan) :
                /\ plan[j].id = calls[k].id
                /\ plan[j].url = calls[k].url

\* Number of read_url steps of p before position k
ReadUrlsBefore(p, k) == Cardinality({m \in 1..(k - 1) : p[m].tool = "read_url"})

\* C12: when the reply to the selection question holds no result number, the
\* executor selects the first three results (all of them if fewer): the first
\* read_url steps of the plan stay and take the urls of these results in order.
C12_UnparsedSelectionFallsBack ==
    [][(i' = i + 1 /\ lastEvent'.kind = "ws_unparsed") =>
          \A k \in 1..Len(plan) :
              LET pos == ReadUrlsBefore(plan, k)
                  n == Len(webSearchResults'.items)
              IN (plan[k].tool = "read_url" /\ pos < 3 /\ pos < n) =>
                     \E j \in 1..Len(plan') :
                         /\ plan'[j].id = plan[k].id
                         /\ plan'[j].url = webSearchResults'.items[pos + 1]]_vars


----------------------------------------------------------------------------
(* Properties of the plan tracker *)

InProgressSteps(p) == {k \in 1..Len(p) : p[k] = IN_PROGRESS}

\* C13: whatever sequence of setPlan, updatePlanStepStatus and
\* completeCurrentStep (and clearPlan) calls is made, with whatever arguments,
\* at most one step of the current plan has the status in-progress.
C13_AtMostOneInProgress == Cardinality(InProgressSteps(currentPlan)) <= 1

\* updatePlanStepStatus has moved the in-progress mark from the first step to
\* the second one
C13_Witness ==
    /\ Len(currentPlan) >= 2
    /\ currentPlan[1] = PENDING
    /\ currentPlan[2] = IN_PROGRESS

\* C14: as long as the plan is not replaced, a step's status only moves
\* pending -> in-progress -> done or error: an in-progress step never goes
\* back to pending and a done or error step never changes again.
Lifecycle == {<<PENDING, IN_PROGRESS>>, <<IN_PROGRESS, DONE>>, <<IN_PROGRESS, ERROR>>}

C14_StatusLifecycle ==
    [][planGen' = planGen =>
           \A k \in 1..Len(currentPlan) :
               \/ currentPlan'[k] = currentPlan[k]
               \/ <<currentPlan[k], currentPlan'[k]>> \in Lifecycle]_vars


----------------------------------------------------------------------------
(* Properties of summarization and final-answer synthesis *)

ClosingMessages ==
    {"final_answer", "no_final_answer", "no_info", "summarization_failed",
     "synthesis_failed"}

\* C15: when the executor's summarize step is over, the user has been shown a
\* final answer, a failure message or a no-information message, whatever the
\* snippets and the model replies were.
C15_SummarizeNeverSilent ==
    (sumAgent = "executor" /\ sumPc = "done") => shown \cap ClosingMessages # {}

\* C16: once a summarization or final-answer request of the controller has
\* failed, no further request is awaited, a failure message has been shown
\* and the tool workflow is inactive.
C16_FailureEndsWorkflow ==
    (sumAgent \in {"chat", "chatPlan"} /\ failed) =>
        /\ sumPc = "done"
        /\ shown \cap {"summarization_failed", "synthesis_failed"} # {}
        /\ toolWorkflowActive = FALSE

\* C17: when summarization is reached with no snippet collected, no
\* final-answer request is made and the user is told that no relevant
\* information was found.
C17_NoSnippetsNoSynthesis ==
    (sumAgent # "-" /\ Len(snippets) = 0) =>
        /\ synthCalls = 0
        /\ sumPc = "done" => "no_info" \in shown

\* C18 as stated: with exactly one snippet collected, summarization ends
\* after exactly one summarization request and exactly one final-answer
\* request.
C18_OneSnippetOneCallEach ==
    (sumAgent \in Summarizers /\ Len(snippets) = 1 /\ sumPc = "done") =>
        /\ sumCalls = 1
        /\ synthCalls = 1

\* C18 amended: with exactly one snippet collected, nothing is batched and
\* exactly one summarization request is made; exactly one final-answer
\* request follows when that request returned a non-empty summary and the
\* question is non-empty, and none otherwise.
C18_OneSnippetOneSummarization ==
    (sumAgent \in Summarizers /\ Len(snippets) = 1) =>
        /\ batches = <<>> /\ batchSummaries = <<>>
        /\ sumPc = "single" => sumCalls = 0 /\ synthCalls = 0
        /\ sumPc = "synth" => sumCalls = 1 /\ synthCalls = 0
        /\ sumPc = "done" =>
              /\ sumCalls = 1
              /\ synthCalls = IF "summary" \in shown /\ userQuery THEN 1 ELSE 0

C18_Witness ==
    /\ sumAgent \in Summarizers
    /\ Len(snippets) = 1
    /\ sumPc = "done"
    /\ sumCalls = 1
    /\ synthCalls = 1


----------------------------------------------------------------------------
(* Properties of createPlan *)

\* C19: createPlan never fails: when the generation of search terms raises,
\* createPlan still returns a plan, built from the user query as its only
\* search term.
C19_CreatePlanNeverFails ==
    /\ plannerPc # "thrown"
    /\ generation = "raised" =>
          /\ plannerPc = "returned"
          /\ createdPlan = BuildPlan(<<plannerQuery>>, 1, readStepsPerTerm)

\* C20: in every plan createPlan returns, whatever the number of search terms
\* and of read steps per term, the k-th step carries the number k.
C20_StepNumbersContiguous ==
    plannerPc = "returned" =>
        \A k \in 1..Len(createdPlan) : createdPlan[k].step = k

\* a plan over several terms with a configured number of read steps
C20_Witness ==
    /\ plannerPc = "returned"
    /\ Len(searchTerms) = MaxTerms
    /\ readStepsPerTerm = MaxReadSteps
    /\ Len(createdPlan) = MaxTerms * (1 + MaxReadSteps) + 1


----------------------------------------------------------------------------
(* Properties of toolHandlers.web_search *)

\* C21: one call of the web_search handler sends at most 3 searches, never
\* the same query twice, and once the model has repeated a tried query or
\* given no query the loop is over.
C21_SearchAttemptsBounded ==
    /\ Len(searched) <= 3
    /\ \A j, k \in 1..Len(searched) : searched[j] = searched[k] => j = k
    /\ declined => wsPc = "done"

\* the model repeated a query after the first search and the handler stopped
C21_Witness ==
    /\ declined
    /\ wsPc = "done"
    /\ Len(searched) = 2

\* C22: the model is asked for a refined query only while fewer than 3
\* distinct urls have been found so far.
C22_RefineOnlyBelowThreeUnique ==
    wsPc = "asking" => Cardinality(Range(allResults)) < 3

\* C23: the deduplicated list holds no url twice, holds every url found, and
\* lists the urls in the order of their first occurrence in allResults.
FirstAt(rs, u) == CHOOSE k \in 1..Len(rs) :
                      rs[k] = u /\ \A m \in 1..(k - 1) : rs[m] # u

C23_DedupeKeepsFirstSeenOrder ==
    wsPc = "done" =>
        /\ \A j, k \in 1..Len(uniqueResults) :
              uniqueResults[j] = uniqueResults[k] => j = k
        /\ Range(uniqueResults) = Range(allResults)
        /\ \A j, k \in 1..Len(uniqueResults) :
              j < k => FirstAt(allResults, uniqueResults[j])
                         < FirstAt(allResults, uniqueResults[k])

\* results of two searches with a url found by both, not next to each other
C23_Witness ==
    /\ wsPc = "done"
    /\ Len(searched) >= 2
    /\ Len(uniqueResults) >= 2
    /\ Len(allResults) > Len(uniqueResults)
    /\ allResults[1] = allResults[Len(allResults)]


----------------------------------------------------------------------------
(* Properties of splitIntoBatches *)

RECURSIVE Flatten(_)
Flatten(bs) == IF bs = <<>> THEN <<>> ELSE Head(bs) \o Flatten(Tail(bs))

\* C24: every batch has a total length of at most the budget, unless it is
\* one snippet that alone is longer than the budget.
C24_BatchesWithinBudget ==
    \A k \in 1..Len(splitBatches) :
        \/ TotalLength(splitBatches[k]) <= splitBudget
        \/ Len(splitBatches[k]) = 1

\* a batch of two snippets that fills the budget exactly, next to a batch of
\* one snippet longer than the budget
C24_Witness ==
    \E j, k \in 1..Len(splitBatches) :
        /\ Len(splitBatches[j]) = 2
        /\ TotalLength(splitBatches[j]) = splitBudget
        /\ Len(splitBatches[k]) = 1
        /\ TotalLength(splitBatches[k]) > splitBudget

\* C25: the batches, put one after the other, are the snippets given, in
\* their order; and no batch is empty.
C25_BatchesConcatenateToInput ==
    /\ Flatten(splitBatches) = splitSnippets
    /\ \A k \in 1..Len(splitBatches) : Len(splitBatches[k]) >= 1

\* three snippets split into more than one batch
C25_Witness ==
    /\ Len(splitSnippets) = 3
    /\ Len(splitBatches) = 2
    /\ Flatten(splitBatches) = splitSnippets


----------------------------------------------------------------------------
(* Properties of ToolsService.webSearch *)

\* C26: in every webSearch call the proxies are tried in non-increasing order
\* of their scores, and every score is the initial score plus the reward of
\* each earlier success and minus the penalty of each earlier failure of
\* that proxy.
C26_ProxiesTriedByScore ==
    /\ \A p \in Range(proxies) :
          proxyHealth[p] = InitialHealth + HealthStep * wins[p]
                             - HealthStep * losses[p]
    /\ searchCalls > 0 =>
          /\ Len(sortedProxies) = Len(proxies)
          /\ Range(sortedProxies) = Range(proxies)
          /\ \A j, k \in 1..Len(sortedProxies) :
                j < k => rankAtSort[sortedProxies[j]] >= rankAtSort[sortedProxies[k]]

\* a later call tries first a proxy that is not the first of the array,
\* because the first one failed before and another one succeeded
C26_Witness ==
    /\ relayPc = "trying"
    /\ searchCalls >= 2
    /\ losses["p1"] > 0
    /\ sortedProxies[1] # "p1"
    /\ rankAtSort[sortedProxies[1]] > rankAtSort[sortedProxies[3]]


----------------------------------------------------------------------------
(* Properties of adaptive reading *)

\* C27: adaptive reading of one url requests at most 5 chunks, and requests
\* a chunk only while the accumulated content is shorter than 10000
\* characters, whatever the model answers.
C27_ReadingBounded ==
    /\ fetches <= maxChunks
    /\ fetches > 0 => lengthAtFetch < maxTotalLength

\* five chunks were read and the content reached the total-length cap
C27_Witness ==
    /\ readPc = "done"
    /\ fetches = maxChunks
    /\ totalLength >= maxTotalLength


----------------------------------------------------------------------------
(* Properties of the conversation history *)

IsPrefix(s, t) == Len(s) <= Len(t) /\ SubSeq(t, 1, Len(s)) = s

\* C28: the history persists across user turns and is append-only: a step
\* that is not a clearChat keeps every existing entry, in place and unchanged.
C28_HistoryAppendOnly ==
    [][clears' = clears => IsPrefix(chatHistory, chatHistory')]_vars

\* a second user turn finds the entries of the first one, no clear between
C28_Witness ==
    /\ clears = 0
    /\ turns = 2
    /\ Len(chatHistory) = 4
    /\ chatHistory[1].role = "system"
    /\ chatHistory[3].role = "assistant"


----------------------------------------------------------------------------
(* Properties of extractToolCall and of the dispatch *)

\* C29: extractToolCall never throws: for every text it returns a tool call
\* or null.
C29_ExtractNeverThrows ==
    extractPc # "idle" => extraction.kind \in {"call", "null"}

\* C29, the texts the claim names apart from null: a scalar, an array and
\* text that cannot be parsed give null in both revisions
C29_OtherValuesGiveNull ==
    /\ extractPc # "idle"
    /\ replyText.form = "delimited"
    /\ replyText.payload \in {"scalar", "array"}
    => extraction.kind = "null"

\* C30: a handler is called only with the name of a registered tool and with
\* arguments that are a mapping.
C30_HandlerGetsToolCall ==
    extractPc = "dispatched" /\ handled.tool # "absent"
    => handled.tool \in ToolRegistry /\ handled.arguments = "mapping"

\* the text's JSON object has no tool member and no tool_call object
NotAToolCall(text) ==
    /\ text.form \in {"delimited", "braces"}
    /\ text.payload = "object"
    /\ text.tool = "absent"
    /\ text.toolCall # "object"

\* C31: a brace-delimited block that does not resemble a tool call is not
\* matched: extractToolCall returns null for it.
C31_ArbitraryBlocksGiveNull ==
    extractPc # "idle" /\ NotAToolCall(replyText) => extraction.kind = "null"

\* the first revision parsed an object with a query member and no tool
C31_Witness ==
    /\ extractPc = "extracted"
    /\ revision = 1
    /\ sanitizerInScope
    /\ NotAToolCall(replyText)
    /\ replyText.query = "scalar"
    /\ replyText.arguments = "array"
    /\ extraction.kind = "null"


----------------------------------------------------------------------------
(* Properties of extractToolCall on serialized calls *)

\* C32: extractToolCall applied to the JSON serialization of a well-formed
\* tool call returns a tool call equal to the original.
C32_ExtractInvertsStringify ==
    tripPc = "extracted" => parsedBack = Stringify(callArguments)

\* C32, the part that holds: the second revision gives back a call whose
\* arguments have only string members without '}'
C32_FlatCallsRoundTrip ==
    /\ tripPc = "extracted"
    /\ tripRevision = 2
    /\ \A k \in 1..Len(callArguments) : callArguments[k] = "string"
    => parsedBack = Stringify(callArguments)


----------------------------------------------------------------------------
(* Properties of Utils.encrypt and Utils.decrypt *)

\* C33: encryption is reversible: for every text and every non-empty key,
\* decrypt(encrypt(text, key), key) equals text.
C33_DecryptInvertsEncrypt ==
    cipherPc = "decrypted" => decrypted = plainText

IsAscii(s) == \A k \in 1..Len(s) : s[k] < 128

\* C33, the part that holds: a text and a key of ASCII characters
C33_AsciiRoundTrip ==
    cipherPc = "decrypted" /\ IsAscii(plainText) /\ IsAscii(cipherKey)
    => decrypted = plainText


----------------------------------------------------------------------------
(* Properties of one user turn *)

\* C34: every user turn terminates: whatever the model replies, a model
\* request made in a turn is followed by the end of the turn.
C34_TurnTerminates ==
    (turnPc = "request") ~> (turnPc = "ended")

\* C34, the part that holds: a handler runs only for a call that was not
\* repeated more than MAX_TOOL_CALL_REPEAT times in a row
C34_RepeatsAreCut ==
    turnPc = "handler" => turnLastToolCallCount <= MAX_TOOL_CALL_REPEAT


----------------------------------------------------------------------------
(* Properties of the summarization recursion *)

\* C35: recursive summarization terminates: whatever the lengths of the
\* summaries, a call that makes a request reaches final-answer synthesis or
\* a failure report.
C35_SummarizationTerminates ==
    (recPc \in {"single", "batch"}) ~> (recPc \in {"synth", "failed"})

\* C35, the part that holds: the summaries handed to final-answer synthesis
\* after a round of batches are no longer than MAX_PROMPT_LENGTH together
C35_SynthesisWithinBudget ==
    (recPc = "synth" /\ recSummaries # <<>>)
        => JoinedLength(recSummaries) <= MAX_PROMPT_LENGTH

----------------------------------------------------------------------------
(* Properties of the inactive tool workflow *)

\* C36: while the tool workflow is inactive, that is from the end of
\* final-answer synthesis to the next sendMessage, a processToolCall
\* invocation starts no handler, and the stored signature and the repeat
\* count stay as they are.
C36_InactiveWorkflowFrozen ==
    [][~toolWorkflowActive =>
          /\ lastToolCall' = lastToolCall
          /\ lastToolCallCount' = lastToolCallCount
          /\ (invocations' # invocations => lastInv'.outcome = "inactive")]_vars

\* processToolCall was invoked after the synthesis had ended the workflow and
\* returned at its gate, a run of two calls being on record
C36_Witness ==
    /\ ~toolWorkflowActive
    /\ invocations > 0
    /\ lastInv.outcome = "inactive"
    /\ lastToolCallCount = 2

----------------------------------------------------------------------------
(* Properties of the repeat count across turns *)

\* C37: repeat counting does not carry over between user turns or across
\* clearChat: a tool call that processToolCall rejects as a loop has been
\* issued before in the same turn.
C37_NoCarryOverBetweenTurns ==
    [][(turnLastToolCallCount' # turnLastToolCallCount
           /\ LoopDetected(turnLastToolCallCount'))
          => turnLastToolCall' \in turnIssued]_vars

\* C37, the part that holds: a call is rejected only after more than
\* MAX_TOOL_CALL_REPEAT consecutive identical calls, whichever turns they
\* were made in
C37_RejectedAfterARun ==
    [][(turnPc = "request" /\ turnPc' = "ended"
           /\ turnLastToolCallCount' # turnLastToolCallCount)
          => /\ turnLastToolCall' = turnLastToolCall
             /\ turnLastToolCallCount >= MAX_TOOL_CALL_REPEAT]_vars


----------------------------------------------------------------------------
(* Properties of the read cache *)

\* C38: every text stored in the read cache under the key (url, start,
\* chunkSize), and every text readUrlChunkWithCache returns for that key, is
\* the text read_url fetched for that url and window; a read that was
\* rejected, ignored or that failed gives no text of another read.
C38_CacheHoldsOwnText ==
    /\ \A k \in DOMAIN readCache : readCache[k] = Fetched(k[1], k[2])
    /\ returned.text # EmptyText
          => returned.text = Fetched(returned.key[1], returned.key[2])

\* C38, the part that holds: a text is cached only when it was returned, and a
\* read whose fetch failed caches nothing
C38_FailedFetchCachesNothing ==
    [][(cachePc = "handler" /\ historyLast' = FailedEntry)
          => (readCache' = readCache /\ returned'.text = EmptyText)]_vars

----------------------------------------------------------------------------
(* Properties of the step numbers of an executed plan *)

StepNumbersDistinct(p) ==
    \A a \in 1..Len(p), b \in 1..Len(p) : a # b => p[a].step # p[b].step

\* C39: after the executor has inserted a fallback step or removed read_url
\* steps, the step numbers of the steps in the plan are pairwise distinct.
C39_StepNumbersDistinct == StepNumbersDistinct(plan)

\* C39, the part that holds: removing read_url steps keeps the step numbers
\* distinct; they are distinct for as long as no fallback step is in the plan
C39_DistinctWithoutFallback ==
    ~AlreadyHasInstant(plan) => StepNumbersDistinct(plan)


----------------------------------------------------------------------------
(* Properties of the auto-read runs *)

\* C40: at most one autoReadAndSummarizeFromSuggestion run is in progress at
\* any time, and autoReadInProgress is false whenever no run is in progress,
\* also after a run that threw; it is true while a run is in progress.
C40_OneRunAtATime ==
    /\ Cardinality(Running) <= 1
    /\ autoReadInProgress <=> Running # {}

\* A run has ended by an exception after a call that came during it was
\* declined, and the flag is false again
C40_Witness ==
    /\ runLog.ended = "threw"
    /\ runLog.declined
    /\ Running = {}
    /\ ~autoReadInProgress

====
